---- MODULE Spec2Model ----
(***************************************************************************)
(* Storage kernel of the table engine: Table (storage/common/table.cpp)    *)
(* over a slotted heap, single-column indexes and the transaction layer,   *)
(* together with the value constructors of sql/parser/parse.cpp.           *)
(*                                                                         *)
(* Byte strings are sequences of character codes; a 4-byte machine word    *)
(* (int, packed date) is a one-element sequence holding the number.        *)
(***************************************************************************)
EXTENDS Integers, Sequences, FiniteSets, TLC

(* ---------------------------------------------------------------------- *)
(* Bounds of the model                                                     *)
(* ---------------------------------------------------------------------- *)
MaxSlots == 2
MaxTrx == 2
MaxSteps == 5

Rids == 1..MaxSlots
Trxs == 1..MaxTrx

(* ---------------------------------------------------------------------- *)
(* Return codes used by the table layer                                    *)
(* ---------------------------------------------------------------------- *)
SUCCESS == "SUCCESS"
INVALID_ARGUMENT == "INVALID_ARGUMENT"
SCHEMA_FIELD_MISSING == "SCHEMA_FIELD_MISSING"
SCHEMA_FIELD_NAME_ILLEGAL == "SCHEMA_FIELD_NAME_ILLEGAL"
SCHEMA_FIELD_TYPE_MISMATCH == "SCHEMA_FIELD_TYPE_MISMATCH"
SCHEMA_FIELD_NOT_EXIST == "SCHEMA_FIELD_NOT_EXIST"
SCHEMA_INDEX_EXIST == "SCHEMA_INDEX_EXIST"
RECORD_INVALID_KEY == "RECORD_INVALID_KEY"
RECORD_DUPLICATE_KEY == "RECORD_DUPLICATE_KEY"
GENERIC_ERROR == "GENERIC_ERROR"
IOERR == "IOERR"
SCHEMA_TABLE_NAME_ILLEGAL == "SCHEMA_TABLE_NAME_ILLEGAL"
SCHEMA_TABLE_EXIST == "SCHEMA_TABLE_EXIST"

(* ---------------------------------------------------------------------- *)
(* Literals                                                                *)
(* ---------------------------------------------------------------------- *)
StrFoo == <<102, 111, 111>>
StrBar == <<98, 97, 114>>
StrTooLong == <<116, 111, 111, 108, 111, 110, 103>>
StrNULL == <<78, 85, 76, 76>>
StrLeapBad == <<50, 48, 50, 49, 45, 48, 50, 45, 50, 57>>
StrDateOk == <<50, 48, 50, 49, 45, 49, 45, 50>>

Min(a, b) == IF a < b THEN a ELSE b

Take(s, n) == SubSeq(s, 1, Min(n, Len(s)))

(* ---------------------------------------------------------------------- *)
(* parse.cpp: value constructors                                           *)
(* ---------------------------------------------------------------------- *)
value_init_integer(v, is_null) ==
    [type |-> "INTS", data |-> <<v>>, is_null |-> is_null]

value_init_float(v, is_null) ==
    [type |-> "FLOATS", data |-> <<v>>, is_null |-> is_null]

IsDigit(c) == c >= 48 /\ c <= 57

\* std::regex_match(str, "^\d{4}-\d{1,2}-\d{1,2}"): the whole string matches
check_date_format(s) ==
    /\ Len(s) >= 8
    /\ Len(s) <= 10
    /\ \A i \in 1..4 : IsDigit(s[i])
    /\ s[5] = 45
    /\ \E m \in 1..2 : \E d \in 1..2 :
         /\ Len(s) = 4 + 1 + m + 1 + d
         /\ \A i \in 6..(5 + m) : IsDigit(s[i])
         /\ s[6 + m] = 45
         /\ \A i \in (7 + m)..(6 + m + d) : IsDigit(s[i])

\* one iteration of the loop of date2num at C index i (i = len-1 down to 0);
\* st = [num, mul]
date2numStep(s, i, st) ==
    LET len == Len(s)
        c == s[i + 1]
    IN IF c # 45
         THEN [num |-> st.num + st.mul * (c - 48), mul |-> st.mul * 10]
         ELSE IF i = len - 2
           THEN [num |-> st.num, mul |-> st.mul * 10]
           ELSE IF i = len - 5
             THEN [num |-> st.num,
                   mul |-> IF st.mul = 1000 THEN st.mul * 10 ELSE st.mul]
             ELSE IF i = len - 4
               THEN [num |-> st.num, mul |-> st.mul * 10]
               ELSE st

RECURSIVE date2numLoop(_, _, _)
date2numLoop(s, i, st) ==
    IF i < 0 THEN st.num ELSE date2numLoop(s, i - 1, date2numStep(s, i, st))

date2num(s) == date2numLoop(s, Len(s) - 1, [num |-> 0, mul |-> 1])

\* a variant that allows 29 days in every February
check_date_data_convert_no_leap(s) ==
    LET num == date2num(s)
        days == num % 100
        mons == (num % 10000) \div 100
        years == num \div 10000
        bad == \/ num < 19700101 \/ num > 20380131
               \/ days > 31 \/ days < 1
               \/ mons > 12 \/ mons < 1
               \/ (mons = 2 /\ days > 29)
               \/ (mons \in {4, 6, 9, 11} /\ days > 30)
               \/ (mons \notin {4, 6, 9, 11} /\ days > 31)
    IN [num |-> num, t |-> IF bad THEN 0 ELSE 1]

\* returns [num, t]: t stays 1 only when no check clears it
check_date_data_convert(s) ==
    LET num == date2num(s)
        days == num % 100
        mons == (num % 10000) \div 100
        years == num \div 10000
        bad == \/ num < 19700101 \/ num > 20380131
               \/ days > 31 \/ days < 1
               \/ mons > 12 \/ mons < 1
               \/ (mons = 2 /\ years % 4 = 0 /\ days > 29)
               \/ (mons = 2 /\ years % 4 # 0 /\ days > 28)
               \/ (mons \in {4, 6, 9, 11} /\ days > 30)
               \/ (mons \notin {4, 6, 9, 11} /\ days > 31)
    IN [num |-> num, t |-> IF bad THEN 0 ELSE 1]

value_init_string(v, is_null) ==
    IF is_null
      THEN [type |-> "NULLS", data |-> v, is_null |-> is_null]
      ELSE IF check_date_format(v)
        THEN LET r == check_date_data_convert(v)
             IN IF r.t = 1
                  THEN [type |-> "DATES", data |-> <<r.num>>, is_null |-> is_null]
                  ELSE [type |-> "CHARS", data |-> v, is_null |-> is_null]
        ELSE [type |-> "CHARS", data |-> v, is_null |-> is_null]

(* ---------------------------------------------------------------------- *)
(* Table metadata: one system field followed by the user fields            *)
(* ---------------------------------------------------------------------- *)
sys_field_num == 1

Fields ==
    << [name |-> "__trx", type |-> "INTS", len |-> 4, nullable |-> FALSE],
       [name |-> "a", type |-> "INTS", len |-> 4, nullable |-> FALSE],
       [name |-> "b", type |-> "CHARS", len |-> 4, nullable |-> TRUE] >>

field_num == Len(Fields)

UserCols == 1..(field_num - sys_field_num)

\* TableMeta::find_field_index_by_name: C index into the field list, -1 if absent
find_field_index_by_name(name) ==
    IF \E i \in 1..field_num : Fields[i].name = name
      THEN (CHOOSE i \in 1..field_num : Fields[i].name = name) - 1
      ELSE -1

(* ---------------------------------------------------------------------- *)
(* table.cpp: legality of a value for a column, record materialisation     *)
(* ---------------------------------------------------------------------- *)
is_legal_nolen(value, field) ==
    IF value.type = "NULLS" /\ ~field.nullable
      THEN SCHEMA_FIELD_NAME_ILLEGAL
      ELSE IF value.type # "NULLS" /\ field.type # value.type
        THEN SCHEMA_FIELD_TYPE_MISMATCH
        ELSE SUCCESS

is_legal(value, field) ==
    IF value.type = "NULLS" /\ ~field.nullable
      THEN SCHEMA_FIELD_NAME_ILLEGAL
      ELSE IF value.type # "NULLS" /\ field.type # value.type
        THEN SCHEMA_FIELD_TYPE_MISMATCH
        ELSE IF value.type = "CHARS" /\ Len(value.data) > field.len
          THEN SCHEMA_FIELD_MISSING
          ELSE SUCCESS

\* payload written for a column whose value has is_null set
NullSentinel(field) ==
    CASE field.type = "CHARS" -> Take(StrNULL, field.len)
      [] field.type = "DATES" -> <<19700101>>
      [] field.type = "FLOATS" -> <<0>>
      [] field.type = "INTS" -> <<0>>

\* memcpy(record + field->offset(), value.data, field->len()) read back as a
\* column value: a word for the numeric types, at most len bytes for CHARS
FieldBytes(data, field) ==
    IF field.type = "CHARS" THEN Take(data, field.len) ELSE Take(data, 4)

\* index (1-based, among the values) of the first illegal value, 0 if none
FirstIllegal(values) ==
    IF \E i \in 1..Len(values) : is_legal(values[i], Fields[i + sys_field_num]) # SUCCESS
      THEN CHOOSE i \in 1..Len(values) :
             /\ is_legal(values[i], Fields[i + sys_field_num]) # SUCCESS
             /\ \A j \in 1..(i - 1) : is_legal(values[j], Fields[j + sys_field_num]) = SUCCESS
      ELSE 0

\* returns [rc, data, nulls]; data and nulls are per user column
make_record(values) ==
    IF Len(values) + sys_field_num # field_num
      THEN [rc |-> SCHEMA_FIELD_MISSING, data |-> <<>>, nulls |-> <<>>]
      ELSE IF FirstIllegal(values) # 0
        THEN [rc |-> is_legal(values[FirstIllegal(values)],
                              Fields[FirstIllegal(values) + sys_field_num]),
              data |-> <<>>, nulls |-> <<>>]
        ELSE [rc |-> SUCCESS,
              data |-> [i \in 1..Len(values) |->
                          IF values[i].is_null
                            THEN NullSentinel(Fields[i + sys_field_num])
                            ELSE FieldBytes(values[i].data, Fields[i + sys_field_num])],
              nulls |-> [i \in 1..Len(values) |-> values[i].is_null]]

(* ---------------------------------------------------------------------- *)
(* State                                                                   *)
(* ---------------------------------------------------------------------- *)
VARIABLES
    heap,         \* record file: slot -> [used, trx, deleted, data, nulls]
    indexes_,     \* Table::indexes_: sequence of [name, field, entries]
    table_meta_,  \* index list of the table metadata: sequence of [name, field]
    operations,   \* per transaction: operation log, sequence of [type, rid]
    rc,           \* return code of the last call
    op,           \* the last call: [name, trx, ...]
    pre,          \* per transaction: heap and indexes when it started
    steps,        \* number of calls made so far
    disk,         \* files: [meta, tmp, index_files]
    files,        \* the directory Table::create works in: [meta, data]
    calls,        \* per caller of Table::create: [pc, path, name, count, rc]
    handles       \* the handlers and files the Table object holds open

vars == <<heap, indexes_, table_meta_, operations, rc, op, pre, steps, disk,
          files, calls, handles>>

\* what a Table object holds open: its record handler, its data file in the
\* buffer pool, and one handler per index in indexes_
RecordHandle == [kind |-> "record_handler", name |-> ""]

DataFileHandle == [kind |-> "data_file", name |-> ""]

IndexHandle(index_name) == [kind |-> "index", name |-> index_name]

\* the directory of Table::create: metadata files by path, data files by table
\* name; the callers of Table::create, each on a Table object of its own
MaxCallers == 2

Callers == 1..MaxCallers

MetaPaths == {"p", "q"}

TableNames == {"t", ""}

NoFile == [exists |-> FALSE, content |-> <<>>]

NoFiles == [meta |-> [x \in MetaPaths |-> NoFile], data |-> [x \in TableNames |-> NoFile]]

Idle == [pc |-> "idle", path |-> "", name |-> "", count |-> 0, rc |-> ""]

\* the .tmp file of the metadata: absent, partly written or completely written
NoTmp == [state |-> "absent", meta |-> <<>>]

\* a free slot
Blank ==
    [used |-> FALSE, trx |-> 0, deleted |-> FALSE,
     data |-> [i \in UserCols |-> <<>>], nulls |-> [i \in UserCols |-> FALSE]]

NoPre == [active |-> FALSE, solo |-> FALSE, ops |-> <<>>, heap |-> <<>>, indexes |-> <<>>]

\* position among the user columns of the field called name (0 if none)
UserCol(name) ==
    LET i == find_field_index_by_name(name)
    IN IF i < sys_field_num THEN 0 ELSE i + 1 - sys_field_num

(* ---------------------------------------------------------------------- *)
(* Record manager (slotted heap)                                           *)
(* ---------------------------------------------------------------------- *)
FreeSlots(h) == {r \in DOMAIN h : ~h[r].used}

\* insert_record takes the first free slot
FirstFree(h) == CHOOSE r \in FreeSlots(h) : \A q \in FreeSlots(h) : r <= q

rh_insert_record(h, rec) == [h EXCEPT ![FirstFree(h)] = rec]

rh_delete_record(h, rid) ==
    IF h[rid].used
      THEN [rc |-> SUCCESS, heap |-> [h EXCEPT ![rid] = Blank]]
      ELSE [rc |-> GENERIC_ERROR, heap |-> h]

(* ---------------------------------------------------------------------- *)
(* B+-tree index: a set of (key, null flag, RID) entries                   *)
(* ---------------------------------------------------------------------- *)
EntryOf(index, rec, rid) ==
    [key |-> rec.data[UserCol(index.field)],
     null |-> rec.nulls[UserCol(index.field)],
     rid |-> rid]

index_insert_entry(index, rec, rid) ==
    IF EntryOf(index, rec, rid) \in index.entries
      THEN [rc |-> RECORD_DUPLICATE_KEY, index |-> index]
      ELSE [rc |-> SUCCESS,
            index |-> [index EXCEPT !.entries = @ \cup {EntryOf(index, rec, rid)}]]

index_delete_entry(index, rec, rid) ==
    IF EntryOf(index, rec, rid) \in index.entries
      THEN [rc |-> SUCCESS,
            index |-> [index EXCEPT !.entries = @ \ {EntryOf(index, rec, rid)}]]
      ELSE [rc |-> RECORD_INVALID_KEY, index |-> index]

(* ---------------------------------------------------------------------- *)
(* table.cpp: index maintenance helpers                                    *)
(* ---------------------------------------------------------------------- *)
\* faults of the environment during an insert: none, the transaction refuses
\* to log the operation, or the write into the k-th index fails (fault = k)
NoFault == 0

TrxFault == -1

\* fail_at: position of the index whose insert_entry fails with an I/O error
RECURSIVE insert_entry_loop(_, _, _, _, _)
insert_entry_loop(idxs, rec, rid, i, fail_at) ==
    IF i > Len(idxs)
      THEN [rc |-> SUCCESS, indexes |-> idxs]
      ELSE LET Step(r) ==
                 IF r.rc # SUCCESS
                   THEN [rc |-> r.rc, indexes |-> idxs]
                   ELSE insert_entry_loop([idxs EXCEPT ![i] = r.index], rec, rid,
                                          i + 1, fail_at)
           IN Step(IF i = fail_at THEN [rc |-> IOERR, index |-> idxs[i]]
                   ELSE index_insert_entry(idxs[i], rec, rid))

insert_entry_of_indexes(idxs, rec, rid, fail_at) ==
    insert_entry_loop(idxs, rec, rid, 1, fail_at)

RECURSIVE delete_entry_loop(_, _, _, _, _, _)
delete_entry_loop(idxs, rec, rid, error_on_not_exists, i, last) ==
    IF i > Len(idxs)
      THEN [rc |-> last, indexes |-> idxs]
      ELSE LET Step(r) ==
                 IF r.rc # SUCCESS /\ (r.rc # RECORD_INVALID_KEY \/ ~error_on_not_exists)
                   THEN [rc |-> r.rc, indexes |-> idxs]
                   ELSE delete_entry_loop([idxs EXCEPT ![i] = r.index], rec, rid,
                                          error_on_not_exists, i + 1, r.rc)
           IN Step(index_delete_entry(idxs[i], rec, rid))

delete_entry_of_indexes(idxs, rec, rid, error_on_not_exists) ==
    delete_entry_loop(idxs, rec, rid, error_on_not_exists, 1, SUCCESS)

\* position in idxs of the first index whose name is index_name, 0 if none
find_index(idxs, index_name) ==
    IF \E i \in 1..Len(idxs) : idxs[i].name = index_name
      THEN CHOOSE i \in 1..Len(idxs) :
             /\ idxs[i].name = index_name
             /\ \A j \in 1..(i - 1) : idxs[j].name # index_name
      ELSE 0

\* TableMeta::find_index_by_field: position in the metadata index list, 0 if none
find_index_by_field(meta, field_name) ==
    IF \E i \in 1..Len(meta) : meta[i].field = field_name
      THEN CHOOSE i \in 1..Len(meta) :
             /\ meta[i].field = field_name
             /\ \A j \in 1..(i - 1) : meta[j].field # field_name
      ELSE 0

(* ---------------------------------------------------------------------- *)
(* Transaction layer: record header and operation log                      *)
(* ---------------------------------------------------------------------- *)
\* t = 0 stands for a null transaction pointer at the call sites
is_visible(t, rec) ==
    \/ rec.trx = 0 /\ ~rec.deleted
    \/ rec.trx = t /\ ~rec.deleted

init_trx_info(t, rec) == [rec EXCEPT !.trx = t, !.deleted = FALSE]

trx_insert_record(log, rid) == Append(log, [type |-> "INSERT", rid |-> rid])

\* stamps the record as pending delete, in place, and logs the operation
trx_delete_record(h, log, t, rid) ==
    [heap |-> [h EXCEPT ![rid].trx = t, ![rid].deleted = TRUE],
     log |-> Append(log, [type |-> "DELETE", rid |-> rid])]

trx_commit_insert(h, rid) == [h EXCEPT ![rid].trx = 0]

trx_rollback_delete(h, rid) == [h EXCEPT ![rid].trx = 0, ![rid].deleted = FALSE]

(* ---------------------------------------------------------------------- *)
(* Conditions (parse.h) and the condition filter                           *)
(* ---------------------------------------------------------------------- *)
EQUAL_TO == "EQUAL_TO"
LESS_THAN == "LESS_THAN"
GREAT_THAN == "GREAT_THAN"

\* this table's name; a condition side without qualifier has relation_name NoRel
TableName == "t"

NoRel == ""

NoValue == [type |-> "UNDEFINED", data |-> <<>>, is_null |-> FALSE]

\* one side of a Condition: an attribute (relation_name, attribute_name) or a value
AttrSide(rel, name) == [is_attr |-> TRUE, rel |-> rel, attr |-> name, value |-> NoValue]

ValueSide(v) == [is_attr |-> FALSE, rel |-> NoRel, attr |-> "", value |-> v]

Cond(left, comp, right) == [left |-> left, comp |-> comp, right |-> right]

\* attribute = literal, unqualified, the literal on the right
AttrEq(name, v) == Cond(AttrSide(NoRel, name), EQUAL_TO, ValueSide(v))

\* is the first byte string before the second in byte order
RECURSIVE BytesLess(_, _)
BytesLess(x, y) ==
    IF y = <<>> THEN FALSE
    ELSE IF x = <<>> THEN TRUE
    ELSE IF x[1] # y[1] THEN x[1] < y[1]
    ELSE BytesLess(Tail(x), Tail(y))

\* left comp right on two column values of the same type
Compare(type, x, comp, y) ==
    LET less(u, v) == IF type = "CHARS" THEN BytesLess(u, v) ELSE u[1] < v[1]
    IN CASE comp = EQUAL_TO -> x = y
         [] comp = LESS_THAN -> less(x, y)
         [] comp = GREAT_THAN -> less(y, x)

SideType(side) ==
    IF side.is_attr THEN Fields[UserCol(side.attr) + sys_field_num].type
    ELSE side.value.type

SideNull(side, rec) ==
    IF side.is_attr THEN rec.nulls[UserCol(side.attr)] ELSE side.value.is_null

SideData(side, rec) ==
    IF side.is_attr THEN rec.data[UserCol(side.attr)] ELSE side.value.data

\* false whenever either side is NULL or the types differ
default_filter(cond, rec) ==
    /\ ~SideNull(cond.left, rec)
    /\ ~SideNull(cond.right, rec)
    /\ SideType(cond.left) = SideType(cond.right)
    /\ Compare(SideType(cond.left), SideData(cond.left, rec), cond.comp,
               SideData(cond.right, rec))

composite_filter(conds, rec) ==
    \A i \in 1..Len(conds) : default_filter(conds[i], rec)

(* ---------------------------------------------------------------------- *)
(* table.cpp: scan_record                                                  *)
(* ---------------------------------------------------------------------- *)
RECURSIVE SortedSeq(_)
SortedSeq(S) ==
    IF S = {} THEN <<>>
    ELSE LET m == CHOOSE x \in S : \A y \in S : x <= y
         IN <<m>> \o SortedSeq(S \ {m})

\* a variant that accepts the attribute on the left only
FieldCondDescLeftOnly(cond) ==
    IF cond.left.is_attr /\ ~cond.right.is_attr THEN cond.left
    ELSE ValueSide(NoValue)

\* the attribute side and the value side of a filter that compares an
\* attribute with a literal; is_attr of both is FALSE when it does not
FieldCondDesc(cond) ==
    IF cond.left.is_attr /\ ~cond.right.is_attr THEN cond.left
    ELSE IF cond.right.is_attr /\ ~cond.left.is_attr THEN cond.right
    ELSE ValueSide(NoValue)

ValueCondDesc(cond) ==
    IF cond.left.is_attr /\ ~cond.right.is_attr THEN cond.right
    ELSE IF cond.right.is_attr /\ ~cond.left.is_attr THEN cond.left
    ELSE ValueSide(NoValue)

\* find_index_for_scan(const DefaultConditionFilter &): position in idxs of the
\* index that serves sub-filter cond, 0 if none does
IndexForCond(idxs, meta, cond) ==
    IF ~FieldCondDesc(cond).is_attr THEN 0
    ELSE LET Named(m) == IF m = 0 THEN 0 ELSE find_index(idxs, meta[m].name)
         IN Named(find_index_by_field(meta, FieldCondDesc(cond).attr))

\* find_index_for_scan(const ConditionFilter *): position in conds of the first
\* sub-filter that an index can serve, 0 if there is none (then the heap is
\* scanned); the null filter is the empty sequence
find_index_for_scan(idxs, meta, conds) ==
    IF \E i \in 1..Len(conds) : IndexForCond(idxs, meta, conds[i]) # 0
      THEN CHOOSE i \in 1..Len(conds) :
             /\ IndexForCond(idxs, meta, conds[i]) # 0
             /\ \A j \in 1..(i - 1) : IndexForCond(idxs, meta, conds[j]) = 0
      ELSE 0

\* create_scanner(comp_op, value, null flag): the RIDs of the entries whose key
\* stands in comp_op to the value, in (key, RID) order
IndexScannerRids(index, comp_op, value) ==
    LET type == Fields[UserCol(index.field) + sys_field_num].type
        Order(hit, keys) ==
            LET KeyBefore(u, v) == Compare(type, u, LESS_THAN, v)
                Rank(k) == Cardinality({j \in keys : KeyBefore(j, k)})
                OfRank(n) == SortedSeq({x.rid : x \in {y \in hit : Rank(y.key) = n}})
                RECURSIVE Walk(_)
                Walk(n) == IF n >= Cardinality(keys) THEN <<>>
                           ELSE OfRank(n) \o Walk(n + 1)
            IN Walk(0)
        Keyed(hit) == Order(hit, {x.key : x \in hit})
    IN Keyed({x \in index.entries :
                /\ ~x.null
                /\ ~value.is_null
                /\ Compare(type, x.key, comp_op, value.data)})

\* length of the longest prefix of rids whose slots are all occupied
RECURSIVE FetchablePrefix(_, _, _)
FetchablePrefix(h, rids, i) ==
    IF i > Len(rids) \/ ~h[rids[i]].used THEN i - 1
    ELSE FetchablePrefix(h, rids, i + 1)

\* the number of records a scan may count: INT_MAX for a negative limit
Limit(limit, available) == IF limit < 0 THEN available ELSE Min(limit, available)

\* scan_record_by_index: the records handed to the reader, in order, and the
\* code returned when the reader never fails; every entry fetched counts
scan_record_by_index(h, index, cond, t, conds, limit) ==
    LET Deliver(r) == (t = 0 \/ is_visible(t, h[r])) /\ composite_filter(conds, h[r])
        Result(rids, m, n) ==
            [rids |-> SelectSeq(SubSeq(rids, 1, n), Deliver),
             rc |-> IF n < m THEN GENERIC_ERROR ELSE SUCCESS,
             path |-> "index", index |-> index.name]
        Fetch(rids, m) == Result(rids, m, FetchablePrefix(h, SubSeq(rids, 1, m), 1))
        Count(rids) == Fetch(rids, Limit(limit, Len(rids)))
    IN Count(IndexScannerRids(index, cond.comp, ValueCondDesc(cond).value))

\* the heap scan path of scan_record: the file scanner applies the filter,
\* only the records handed to the reader count
scan_record_heap(h, t, conds, limit) ==
    LET Deliver(r) == /\ h[r].used
                      /\ composite_filter(conds, h[r])
                      /\ (t = 0 \/ is_visible(t, h[r]))
        Count(all) == [rids |-> SubSeq(all, 1, Limit(limit, Len(all))),
                       rc |-> SUCCESS, path |-> "heap", index |-> ""]
    IN Count(SelectSeq(SortedSeq(DOMAIN h), Deliver))

scan_record(h, idxs, meta, t, conds, limit) ==
    LET Path(i) ==
          IF i # 0
            THEN scan_record_by_index(h, idxs[IndexForCond(idxs, meta, conds[i])],
                                      conds[i], t, conds, limit)
            ELSE scan_record_heap(h, t, conds, limit)
    IN IF limit = 0
         THEN [rids |-> <<>>, rc |-> SUCCESS, path |-> "none", index |-> ""]
         ELSE Path(find_index_for_scan(idxs, meta, conds))

(* ---------------------------------------------------------------------- *)
(* table.cpp: insert_record(trx, record)                                   *)
(* ---------------------------------------------------------------------- *)
\* st = [heap, indexes, log]; returns [rc, heap, indexes, log, rid, panic];
\* t = 0 is the null transaction; panic: a compensation step failed (LOG_PANIC)
insert_record(st, t, rec0, fault) ==
    LET rec == IF t # 0 THEN init_trx_info(t, rec0) ELSE rec0
        rid == FirstFree(st.heap)
        h1 == rh_insert_record(st.heap, rec)
        log1 == IF t # 0 THEN trx_insert_record(st.log, rid) ELSE st.log
        Undone(code, undo, freed) ==
            [rc |-> code, heap |-> freed.heap, indexes |-> undo.indexes,
             log |-> log1, rid |-> rid,
             panic |-> undo.rc # SUCCESS \/ freed.rc # SUCCESS]
        Indexed(ins) ==
            IF ins.rc # SUCCESS
              THEN Undone(ins.rc, delete_entry_of_indexes(ins.indexes, rec, rid, TRUE),
                          rh_delete_record(h1, rid))
              ELSE [rc |-> SUCCESS, heap |-> h1, indexes |-> ins.indexes,
                    log |-> log1, rid |-> rid, panic |-> FALSE]
    IN IF t # 0 /\ fault = TrxFault
         THEN [rc |-> GENERIC_ERROR, heap |-> rh_delete_record(h1, rid).heap,
               indexes |-> st.indexes, log |-> st.log, rid |-> rid,
               panic |-> rh_delete_record(h1, rid).rc # SUCCESS]
         ELSE Indexed(insert_entry_of_indexes(st.indexes, rec, rid, fault))

(* ---------------------------------------------------------------------- *)
(* table.cpp: update_record(trx, record, attribute_name, value)            *)
(* ---------------------------------------------------------------------- *)
\* the index the update maintains: looked up by the attribute name
UpdateIndex(idxs, meta, attribute_name) == find_index(idxs, attribute_name)

\* st = [rc, heap, indexes]; returns the same shape
update_one(st, meta, rid, attribute_name, value) ==
    LET i == find_field_index_by_name(attribute_name)
        field_meta == Fields[i + 1]
        col == i + 1 - sys_field_num
        old == st.heap[rid]
        new == [old EXCEPT !.data[col] = FieldBytes(value.data, field_meta),
                           !.nulls[i - 1 + 1] = value.is_null]
        h1 == [st.heap EXCEPT ![rid] = new]
        Inserted(ins, idx2) ==
            IF ins.rc # SUCCESS
              THEN [rc |-> ins.rc,
                    heap |-> rh_delete_record(h1, rid).heap,
                    indexes |-> delete_entry_of_indexes(idx2, new, rid, TRUE).indexes]
              ELSE [rc |-> SUCCESS, heap |-> h1, indexes |-> idx2]
        Insert2(x, idx1, ins) ==
            Inserted(ins, IF x = 0 THEN idx1 ELSE [idx1 EXCEPT ![x] = ins.index])
        Checked(x, legal, idx1) ==
            IF legal # SUCCESS
              THEN [rc |-> legal, heap |-> st.heap, indexes |-> idx1]
              ELSE Insert2(x, idx1, IF x = 0 THEN [rc |-> SUCCESS, index |-> <<>>]
                                    ELSE index_insert_entry(idx1[x], new, rid))
        Deleted(x, del) ==
            IF del.rc # SUCCESS
              THEN [rc |-> del.rc, heap |-> st.heap, indexes |-> st.indexes]
              ELSE Checked(x, is_legal(value, field_meta),
                           IF x = 0 THEN st.indexes
                           ELSE [st.indexes EXCEPT ![x] = del.index])
        Found(x) == Deleted(x, IF x = 0 THEN [rc |-> SUCCESS, index |-> <<>>]
                               ELSE index_delete_entry(st.indexes[x], old, rid))
    IN IF i = -1
         THEN [rc |-> SCHEMA_FIELD_NOT_EXIST, heap |-> st.heap, indexes |-> st.indexes]
         ELSE Found(UpdateIndex(st.indexes, meta, attribute_name))

\* the reader of the update scan: stops at the first record that fails
RECURSIVE update_loop(_, _, _, _, _, _)
update_loop(st, meta, rids, k, attribute_name, value) ==
    IF k > Len(rids) \/ st.rc # SUCCESS THEN st
    ELSE update_loop(update_one(st, meta, rids[k], attribute_name, value),
                     meta, rids, k + 1, attribute_name, value)

(* ---------------------------------------------------------------------- *)
(* table.cpp: delete_record(trx, record)                                   *)
(* ---------------------------------------------------------------------- *)
\* a variant that removes the record at once also under a transaction
delete_one_at_once(st, t, rid) ==
    LET Freed(d, f) ==
          IF d.rc # SUCCESS
            THEN [rc |-> d.rc, heap |-> st.heap, indexes |-> d.indexes, log |-> st.log]
            ELSE [rc |-> f.rc, heap |-> f.heap, indexes |-> d.indexes, log |-> st.log]
    IN Freed(delete_entry_of_indexes(st.indexes, st.heap[rid], rid, FALSE),
             rh_delete_record(st.heap, rid))

\* delete_record(trx, record); st = [rc, heap, indexes, log]
delete_one(st, t, rid) ==
    LET Marked(d) == [rc |-> SUCCESS, heap |-> d.heap, indexes |-> st.indexes,
                      log |-> d.log]
        Freed(d, f) ==
          IF d.rc # SUCCESS
            THEN [rc |-> d.rc, heap |-> st.heap, indexes |-> d.indexes, log |-> st.log]
            ELSE [rc |-> f.rc, heap |-> f.heap, indexes |-> d.indexes, log |-> st.log]
    IN IF t # 0
         THEN Marked(trx_delete_record(st.heap, st.log, t, rid))
         ELSE Freed(delete_entry_of_indexes(st.indexes, st.heap[rid], rid, FALSE),
                    rh_delete_record(st.heap, rid))

\* the reader of the delete scan: stops at the first record that fails
RECURSIVE delete_loop(_, _, _, _)
delete_loop(st, t, rids, k) ==
    IF k > Len(rids) \/ st.rc # SUCCESS THEN st
    ELSE delete_loop(delete_one(st, t, rids[k]), t, rids, k + 1)

(* ---------------------------------------------------------------------- *)
(* table.cpp: commit_insert, commit_delete, rollback_insert,               *)
(* rollback_delete; st = [rc, heap, indexes]                               *)
(* ---------------------------------------------------------------------- *)
commit_insert(st, rid) ==
    IF ~st.heap[rid].used
      THEN [st EXCEPT !.rc = GENERIC_ERROR]
      ELSE [st EXCEPT !.rc = SUCCESS, !.heap = trx_commit_insert(st.heap, rid)]

commit_delete_keep_entries(st, rid) ==
    LET Freed(f) == [rc |-> f.rc, heap |-> f.heap, indexes |-> st.indexes]
    IN IF ~st.heap[rid].used
         THEN [st EXCEPT !.rc = GENERIC_ERROR]
         ELSE Freed(rh_delete_record(st.heap, rid))

commit_delete(st, rid) ==
    LET Freed(f, d) == [rc |-> f.rc, heap |-> f.heap, indexes |-> d.indexes]
    IN IF ~st.heap[rid].used
         THEN [st EXCEPT !.rc = GENERIC_ERROR]
         ELSE Freed(rh_delete_record(st.heap, rid),
                    delete_entry_of_indexes(st.indexes, st.heap[rid], rid, FALSE))

rollback_insert(st, rid) ==
    LET Freed(d, f) ==
          IF d.rc # SUCCESS
            THEN [rc |-> d.rc, heap |-> st.heap, indexes |-> d.indexes]
            ELSE [rc |-> f.rc, heap |-> f.heap, indexes |-> d.indexes]
    IN IF ~st.heap[rid].used
         THEN [st EXCEPT !.rc = GENERIC_ERROR]
         ELSE Freed(delete_entry_of_indexes(st.indexes, st.heap[rid], rid, FALSE),
                    rh_delete_record(st.heap, rid))

rollback_delete(st, rid) ==
    IF ~st.heap[rid].used
      THEN [st EXCEPT !.rc = GENERIC_ERROR]
      ELSE [st EXCEPT !.rc = SUCCESS, !.heap = trx_rollback_delete(st.heap, rid)]

\* Trx::commit: the log in order; acc = [rc, heap, indexes, err]
RECURSIVE commit_loop(_, _, _)
commit_loop(acc, log, k) ==
    IF k > Len(log) THEN acc
    ELSE LET Step(r) ==
               commit_loop([rc |-> r.rc, heap |-> r.heap, indexes |-> r.indexes,
                            err |-> IF acc.err = SUCCESS THEN r.rc ELSE acc.err],
                           log, k + 1)
             Callback(st) == IF log[k].type = "INSERT" THEN commit_insert(st, log[k].rid)
                             ELSE commit_delete(st, log[k].rid)
         IN Step(Callback([rc |-> acc.rc, heap |-> acc.heap, indexes |-> acc.indexes]))

\* Trx::rollback: the log in reverse
RECURSIVE rollback_loop(_, _, _)
rollback_loop(acc, log, k) ==
    IF k < 1 THEN acc
    ELSE LET Step(r) ==
               rollback_loop([rc |-> r.rc, heap |-> r.heap, indexes |-> r.indexes,
                              err |-> IF acc.err = SUCCESS THEN r.rc ELSE acc.err],
                             log, k - 1)
             Callback(st) == IF log[k].type = "INSERT" THEN rollback_insert(st, log[k].rid)
                             ELSE rollback_delete(st, log[k].rid)
         IN Step(Callback([rc |-> acc.rc, heap |-> acc.heap, indexes |-> acc.indexes]))

\* the reader of the scan of create_index: one entry per delivered record
RECURSIVE index_build_loop(_, _, _, _)
index_build_loop(acc, h, rids, k) ==
    IF k > Len(rids) \/ acc.rc # SUCCESS THEN acc
    ELSE index_build_loop(index_insert_entry(acc.index, h[rids[k]], rids[k]),
                          h, rids, k + 1)

(* ---------------------------------------------------------------------- *)
(* Inputs of the transactional workload                                    *)
(* ---------------------------------------------------------------------- *)
InsertInputs ==
    {<<value_init_integer(n, FALSE), value_init_string(StrFoo, FALSE)>> : n \in {1, 2}}

UpdateInputs ==
    {[attr |-> "a", value |-> value_init_integer(2, FALSE)],
     [attr |-> "b", value |-> value_init_string(StrBar, FALSE)]}

CondInputs ==
    {<<>>, <<AttrEq("a", value_init_integer(1, FALSE))>>}

IndexNames == {"a", "ix"}

IndexAttrs == {"a"}

(* ---------------------------------------------------------------------- *)
(* Inputs of the legality workload: every kind of value the constructors   *)
(* produce, legal and illegal, and value lists of the wrong length         *)
(* ---------------------------------------------------------------------- *)
AValues ==
    {value_init_integer(1, FALSE), value_init_integer(1, TRUE),
     value_init_string(StrNULL, TRUE), value_init_string(StrFoo, FALSE)}

BValues ==
    {value_init_string(StrFoo, FALSE), value_init_string(StrTooLong, FALSE),
     value_init_string(StrNULL, TRUE), value_init_integer(1, FALSE),
     value_init_string(StrDateOk, FALSE), value_init_string(StrLeapBad, FALSE)}

LegalInsertInputs ==
    {<<a, b>> : a \in AValues, b \in BValues}
      \cup {<<>>, <<value_init_integer(1, FALSE)>>,
            <<value_init_integer(1, FALSE), value_init_string(StrFoo, FALSE),
              value_init_string(StrFoo, FALSE)>>}

LegalUpdateInputs ==
    {[attr |-> "a", value |-> v] :
        v \in {value_init_integer(2, FALSE), value_init_integer(2, TRUE),
               value_init_string(StrNULL, TRUE)}}
      \cup
    {[attr |-> "b", value |-> v] :
        v \in {value_init_string(StrBar, FALSE), value_init_string(StrNULL, TRUE),
               value_init_string(StrTooLong, FALSE)}}

(* ---------------------------------------------------------------------- *)
(* Bookkeeping for the properties: what each open transaction started from *)
(* ---------------------------------------------------------------------- *)
Touch(t, name, changed) ==
    IF ~changed THEN pre
    ELSE [u \in Trxs |->
            IF u = t
              THEN IF pre[t].active
                     THEN IF pre[t].solo
                            THEN [pre[t] EXCEPT !.ops = Append(@, name)]
                            ELSE pre[t]
                     ELSE [active |-> TRUE, solo |-> TRUE, ops |-> <<name>>,
                           heap |-> heap, indexes |-> indexes_]
              ELSE IF pre[u].active
                     THEN [NoPre EXCEPT !.active = TRUE]
                     ELSE NoPre]

Finish(t, changed) ==
    [u \in Trxs |->
        IF u = t THEN NoPre
        ELSE IF pre[u].active /\ changed
               THEN [NoPre EXCEPT !.active = TRUE]
               ELSE pre[u]]

(* ---------------------------------------------------------------------- *)
(* Initial state: an empty table without indexes, no transaction open      *)
(* ---------------------------------------------------------------------- *)
Init ==
    /\ heap = [r \in Rids |-> Blank]
    /\ indexes_ = <<>>
    /\ table_meta_ = <<>>
    /\ operations = [t \in Trxs |-> <<>>]
    /\ rc = SUCCESS
    /\ op = [name |-> "init", trx |-> 0]
    /\ pre = [t \in Trxs |-> NoPre]
    /\ steps = 0
    /\ disk = [meta |-> <<>>, tmp |-> NoTmp, index_files |-> {}]
    /\ files = NoFiles
    /\ calls = [c \in Callers |-> Idle]
    /\ handles = {RecordHandle, DataFileHandle}

(* ---------------------------------------------------------------------- *)
(* Table::insert_record(trx, value_num, values)                            *)
(* ---------------------------------------------------------------------- *)
\* the operation log of transaction t; the null transaction has none
LogOf(t) == IF t = 0 THEN <<>> ELSE operations[t]

WithLog(t, log) == IF t = 0 THEN operations ELSE [operations EXCEPT ![t] = log]

Insert(t, values, fault) ==
    /\ op' = [name |-> "insert", trx |-> t, values |-> values, fault |-> fault]
    /\ UNCHANGED <<table_meta_, disk, handles>>
    /\ LET Apply(r) ==
             /\ rc' = r.rc
             /\ heap' = r.heap
             /\ indexes_' = r.indexes
             /\ operations' = WithLog(t, r.log)
             /\ pre' = Touch(t, "insert", TRUE)
           Made(mr) ==
             IF mr.rc # SUCCESS
               THEN /\ rc' = mr.rc
                    /\ UNCHANGED <<heap, indexes_, operations, pre>>
               ELSE /\ FreeSlots(heap) # {}
                    /\ Apply(insert_record(
                               [heap |-> heap, indexes |-> indexes_, log |-> LogOf(t)],
                               t,
                               [used |-> TRUE, trx |-> 0, deleted |-> FALSE,
                                data |-> mr.data, nulls |-> mr.nulls],
                               fault))
       IN IF Len(values) <= 0
            THEN /\ rc' = INVALID_ARGUMENT
                 /\ UNCHANGED <<heap, indexes_, operations, pre>>
            ELSE Made(make_record(values))

(* ---------------------------------------------------------------------- *)
(* Table::update_record(trx, attribute_name, value, conditions)            *)
(* ---------------------------------------------------------------------- *)
\* a condition side that is an attribute qualified with another table's name
ForeignSide(side) == side.is_attr /\ side.rel # NoRel /\ side.rel # TableName

\* a variant that looks at the left side only
ForeignCondLeftOnly(cond) == ForeignSide(cond.left)

ForeignCond(cond) == ForeignSide(cond.left) \/ ForeignSide(cond.right)

\* the guard of the branch of update_record that hands the new record to the
\* transaction, as the comment above it has it
update_through_trx_if_any(t) == t # 0

\* the guard as compiled: if (false)
update_through_trx(t) == FALSE

\* Trx::update_record, had it run for the records of the scan
trx_update_records(log, rids) ==
    log \o [k \in 1..Len(rids) |-> [type |-> "UPDATE", rid |-> rids[k]]]

Update(t, u, conds) ==
    /\ UNCHANGED <<table_meta_, disk, handles>>
    /\ LET Apply(scan, r) ==
             /\ rc' = IF r.rc # SUCCESS THEN r.rc ELSE scan.rc
             /\ operations' =
                  IF update_through_trx(t)
                    THEN [operations EXCEPT ![t] = trx_update_records(@, scan.rids)]
                    ELSE operations
             /\ heap' = r.heap
             /\ indexes_' = r.indexes
             /\ op' = [name |-> "update", trx |-> t, attr |-> u.attr,
                       value |-> u.value, conds |-> conds, rids |-> scan.rids]
             /\ pre' = Touch(t, "update", r.heap # heap \/ r.indexes # indexes_)
           Scanned(scan) ==
             Apply(scan, update_loop([rc |-> SUCCESS, heap |-> heap,
                                      indexes |-> indexes_],
                                     table_meta_, scan.rids, 1, u.attr, u.value))
       IN IF \E i \in 1..Len(conds) : ForeignCond(conds[i])
            THEN /\ rc' = SCHEMA_TABLE_NAME_ILLEGAL
                 /\ op' = [name |-> "update", trx |-> t, attr |-> u.attr,
                           value |-> u.value, conds |-> conds, rids |-> <<>>]
                 /\ UNCHANGED <<heap, indexes_, pre, operations>>
            ELSE Scanned(scan_record(heap, indexes_, table_meta_, t, conds, -1))

(* ---------------------------------------------------------------------- *)
(* Table::delete_record(trx, filter)                                       *)
(* ---------------------------------------------------------------------- *)
Delete(t, conds) ==
    /\ LET Apply(scan, r) ==
             /\ rc' = IF r.rc # SUCCESS THEN r.rc ELSE scan.rc
             /\ heap' = r.heap
             /\ indexes_' = r.indexes
             /\ operations' = WithLog(t, r.log)
             /\ op' = [name |-> "delete", trx |-> t, rids |-> scan.rids]
             /\ pre' = Touch(t, "delete", r.heap # heap \/ r.indexes # indexes_)
           Scanned(scan) ==
             Apply(scan, delete_loop([rc |-> SUCCESS, heap |-> heap,
                                      indexes |-> indexes_, log |-> LogOf(t)],
                                     t, scan.rids, 1))
       IN Scanned(scan_record(heap, indexes_, table_meta_, t, conds, -1))
    /\ UNCHANGED <<table_meta_, disk, handles>>

(* ---------------------------------------------------------------------- *)
(* Table::scan_record(trx, filter, limit, context, record_reader) with a   *)
(* reader that collects the records and never fails                        *)
(* ---------------------------------------------------------------------- *)
Scan(t, conds, limit) ==
    /\ LET Apply(scan) ==
             /\ rc' = scan.rc
             /\ op' = [name |-> "scan", trx |-> t, conds |-> conds, limit |-> limit,
                       rids |-> scan.rids, path |-> scan.path, index |-> scan.index]
       IN Apply(scan_record(heap, indexes_, table_meta_, t, conds, limit))
    /\ UNCHANGED <<heap, indexes_, table_meta_, operations, pre, disk, handles>>

(* ---------------------------------------------------------------------- *)
(* Table::create_index(trx, index_name, attribute_name)                    *)
(* ---------------------------------------------------------------------- *)
\* faults of the file system during create_index: none, the index file cannot be
\* created, the .tmp file cannot be opened, its serialisation fails midway, or
\* the rename over the metadata file fails; creating a file that exists fails
NoIoFault == "none"
CreateFault == "create"
OpenTmpFault == "open_tmp"
SerializeFault == "serialize"
RenameFault == "rename"

\* a variant that swaps the in-memory metadata before the rename has succeeded
write_meta_swap_first(cur, new_meta, fault) ==
    IF fault = OpenTmpFault
      THEN [rc |-> IOERR, meta |-> cur.meta, disk |-> cur.disk]
      ELSE IF fault = SerializeFault
        THEN [rc |-> IOERR, meta |-> cur.meta,
              disk |-> [cur.disk EXCEPT !.tmp = [state |-> "partial", meta |-> <<>>]]]
        ELSE IF fault = RenameFault
          THEN [rc |-> IOERR, meta |-> new_meta,
                disk |-> [cur.disk EXCEPT
                            !.tmp = [state |-> "complete", meta |-> new_meta]]]
          ELSE [rc |-> SUCCESS, meta |-> new_meta,
                disk |-> [cur.disk EXCEPT !.tmp = NoTmp, !.meta = new_meta]]

\* what create_index leaves in memory and on disk once the index is built and
\* pushed to indexes_; cur = [meta, disk], new_meta the metadata with the index
write_meta(cur, new_meta, fault) ==
    IF fault = OpenTmpFault
      THEN [rc |-> IOERR, meta |-> cur.meta, disk |-> cur.disk]
      ELSE IF fault = SerializeFault
        THEN [rc |-> IOERR, meta |-> cur.meta,
              disk |-> [cur.disk EXCEPT !.tmp = [state |-> "partial", meta |-> <<>>]]]
        ELSE IF fault = RenameFault
          THEN [rc |-> IOERR, meta |-> cur.meta,
                disk |-> [cur.disk EXCEPT
                            !.tmp = [state |-> "complete", meta |-> new_meta]]]
          ELSE [rc |-> SUCCESS, meta |-> new_meta,
                disk |-> [cur.disk EXCEPT !.tmp = NoTmp, !.meta = new_meta]]

\* a variant that looks at the name only
index_exists_by_name(meta, index_name, attribute_name) ==
    \E i \in 1..Len(meta) : meta[i].name = index_name

\* the test that refuses a second index: by name or by column
index_exists(meta, index_name, attribute_name) ==
    \/ \E i \in 1..Len(meta) : meta[i].name = index_name
    \/ find_index_by_field(meta, attribute_name) # 0

CreateIndex(t, index_name, attribute_name, fault) ==
    /\ op' = [name |-> "create_index", trx |-> t, index |-> index_name,
              attr |-> attribute_name, fault |-> fault]
    /\ UNCHANGED <<heap, operations>>
    /\ LET created == [disk EXCEPT !.index_files = @ \cup {index_name}]
           Apply(b, w) ==
             IF b.rc # SUCCESS
               THEN /\ rc' = b.rc
                    /\ disk' = created
                    /\ UNCHANGED <<indexes_, table_meta_, pre, handles>>
               ELSE /\ rc' = w.rc
                    /\ indexes_' = Append(indexes_, b.index)
                    /\ handles' = handles \cup {IndexHandle(index_name)}
                    /\ table_meta_' = w.meta
                    /\ disk' = w.disk
                    /\ pre' = Touch(t, "create_index", TRUE)
           Scanned(scan) ==
             Apply(index_build_loop([rc |-> SUCCESS,
                                     index |-> [name |-> index_name,
                                                field |-> attribute_name,
                                                entries |-> {}]],
                                    heap, scan.rids, 1),
                   write_meta([meta |-> table_meta_, disk |-> created],
                              Append(table_meta_, [name |-> index_name,
                                                   field |-> attribute_name]),
                              fault))
       IN IF index_name = "" \/ attribute_name = ""
            THEN /\ rc' = INVALID_ARGUMENT
                 /\ UNCHANGED <<indexes_, table_meta_, pre, disk, handles>>
            ELSE IF index_exists(table_meta_, index_name, attribute_name)
              THEN /\ rc' = SCHEMA_INDEX_EXIST
                   /\ UNCHANGED <<indexes_, table_meta_, pre, disk, handles>>
              ELSE IF find_field_index_by_name(attribute_name) = -1
                THEN /\ rc' = SCHEMA_FIELD_MISSING
                     /\ UNCHANGED <<indexes_, table_meta_, pre, disk, handles>>
                ELSE IF fault = CreateFault \/ index_name \in disk.index_files
                  THEN /\ rc' = IOERR
                       /\ UNCHANGED <<indexes_, table_meta_, pre, disk, handles>>
                  ELSE Scanned(scan_record(heap, indexes_, table_meta_, t, <<>>, -1))

(* ---------------------------------------------------------------------- *)
(* Trx::commit and Trx::rollback                                           *)
(* ---------------------------------------------------------------------- *)
Commit(t) ==
    /\ pre[t].active
    /\ LET Apply(r) ==
             /\ rc' = r.err
             /\ heap' = r.heap
             /\ indexes_' = r.indexes
             /\ pre' = Finish(t, r.heap # heap \/ r.indexes # indexes_)
       IN Apply(commit_loop([rc |-> SUCCESS, heap |-> heap, indexes |-> indexes_,
                             err |-> SUCCESS], operations[t], 1))
    /\ operations' = [operations EXCEPT ![t] = <<>>]
    /\ op' = [name |-> "commit", trx |-> t, log |-> operations[t], pre |-> pre[t]]
    /\ UNCHANGED <<table_meta_, disk, handles>>

Rollback(t) ==
    /\ pre[t].active
    /\ LET Apply(r) ==
             /\ rc' = r.err
             /\ heap' = r.heap
             /\ indexes_' = r.indexes
             /\ pre' = Finish(t, r.heap # heap \/ r.indexes # indexes_)
       IN Apply(rollback_loop([rc |-> SUCCESS, heap |-> heap, indexes |-> indexes_,
                               err |-> SUCCESS], operations[t], Len(operations[t])))
    /\ operations' = [operations EXCEPT ![t] = <<>>]
    /\ op' = [name |-> "rollback", trx |-> t, log |-> operations[t], pre |-> pre[t]]
    /\ UNCHANGED <<table_meta_, disk, handles>>

(* ---------------------------------------------------------------------- *)
(* Table::create(path, name, base_dir, attribute_count, attributes), in    *)
(* the three stretches between which another caller can run: the exclusive *)
(* open of the metadata file, the writing of the metadata, the creation of *)
(* the data file with the record handler                                   *)
(* ---------------------------------------------------------------------- *)
\* faults of the environment during create: none, open fails for a reason other
\* than EEXIST, TableMeta::init refuses the attributes, the stream cannot be
\* opened for writing, the buffer pool cannot create the data file
NoCreateFault == "none"
OpenFault == "open"
MetaInitFault == "meta_init"
StreamFault == "stream"
DataFileFault == "data_file"

\* a variant that opens the metadata file without O_EXCL
open_creat(meta_files, path) ==
    [ok |-> TRUE,
     files |-> IF meta_files[path].exists THEN meta_files
               ELSE [meta_files EXCEPT ![path] = [exists |-> TRUE, content |-> <<>>]]]

\* ::open(path, O_WRONLY | O_CREAT | O_EXCL | O_CLOEXEC): fails with EEXIST when
\* the file is there, creates it empty otherwise
open_excl(meta_files, path) ==
    IF meta_files[path].exists
      THEN [ok |-> FALSE, files |-> meta_files]
      ELSE [ok |-> TRUE,
            files |-> [meta_files EXCEPT ![path] = [exists |-> TRUE, content |-> <<>>]]]

Returned(c, code) == [calls EXCEPT ![c].pc = "returned", ![c].rc = code]

\* the argument checks and the exclusive open
CreateOpen(c, path, name, count, fault) ==
    /\ calls[c].pc = "idle"
    /\ op' = [name |-> "create", trx |-> 0, caller |-> c, path |-> path,
              table |-> name, count |-> count, fault |-> fault]
    /\ LET call == [pc |-> "created", path |-> path, name |-> name, count |-> count,
                    rc |-> ""]
           Return(code) ==
             /\ calls' = [calls EXCEPT ![c] = [call EXCEPT !.pc = "returned", !.rc = code]]
             /\ rc' = code
             /\ UNCHANGED files
           Opened(o) ==
             IF ~o.ok
               THEN Return(SCHEMA_TABLE_EXIST)
               ELSE /\ files' = [files EXCEPT !.meta = o.files]
                    /\ calls' = [calls EXCEPT ![c] = call]
                    /\ UNCHANGED rc
       IN IF name = "" THEN Return(INVALID_ARGUMENT)
          ELSE IF count <= 0 THEN Return(INVALID_ARGUMENT)
          ELSE IF fault = OpenFault /\ ~files.meta[path].exists THEN Return(IOERR)
          ELSE Opened(open_excl(files.meta, path))

\* table_meta_.init and the serialisation of the metadata into the file, which
\* the stream truncates when it opens it
CreateMeta(c, fault) ==
    /\ calls[c].pc = "created"
    /\ op' = [name |-> "create", trx |-> 0, caller |-> c, path |-> calls[c].path,
              table |-> calls[c].name, count |-> calls[c].count, fault |-> fault]
    /\ IF fault = MetaInitFault
         THEN /\ calls' = Returned(c, INVALID_ARGUMENT)
              /\ rc' = INVALID_ARGUMENT
              /\ UNCHANGED files
         ELSE IF fault = StreamFault
           THEN /\ calls' = Returned(c, IOERR)
                /\ rc' = IOERR
                /\ UNCHANGED files
           ELSE /\ files' = [files EXCEPT !.meta[calls[c].path] =
                                [exists |-> TRUE,
                                 content |-> <<calls[c].name, calls[c].count>>]]
                /\ calls' = [calls EXCEPT ![c].pc = "meta_written"]
                /\ UNCHANGED rc

\* the data file in the buffer pool and the record handler on it
CreateData(c, fault) ==
    /\ calls[c].pc = "meta_written"
    /\ op' = [name |-> "create", trx |-> 0, caller |-> c, path |-> calls[c].path,
              table |-> calls[c].name, count |-> calls[c].count, fault |-> fault]
    /\ IF fault = DataFileFault \/ files.data[calls[c].name].exists
         THEN /\ calls' = Returned(c, IOERR)
              /\ rc' = IOERR
              /\ UNCHANGED files
         ELSE /\ files' = [files EXCEPT !.data[calls[c].name] =
                              [exists |-> TRUE, content |-> <<calls[c].name>>]]
              /\ calls' = Returned(c, SUCCESS)
              /\ rc' = SUCCESS

(* ---------------------------------------------------------------------- *)
(* Table::~Table: the record handler is deleted and the data file closed;  *)
(* the vector indexes_ goes with the object, the handlers it points to are *)
(* left as they are                                                        *)
(* ---------------------------------------------------------------------- *)
Teardown ==
    /\ op' = [name |-> "~Table", trx |-> 0]
    /\ handles' = (handles \ {RecordHandle}) \ {DataFileHandle}
    /\ UNCHANGED <<heap, indexes_, table_meta_, operations, rc, pre, disk>>

\* every call counts against the bound on the length of a run
Tick(max) == steps < max /\ steps' = steps + 1

Next ==
    /\ Tick(MaxSteps)
    /\ UNCHANGED <<files, calls>>
    /\ \/ \E t \in Trxs : \E values \in InsertInputs : Insert(t, values, NoFault)
       \/ \E t \in Trxs : \E u \in UpdateInputs : \E conds \in CondInputs : Update(t, u, conds)
       \/ \E t \in Trxs : \E conds \in CondInputs : Delete(t, conds)
       \/ \E t \in Trxs : \E n \in IndexNames : \E a \in IndexAttrs : CreateIndex(t, n, a, NoIoFault)
       \/ \E t \in Trxs : Commit(t)
       \/ \E t \in Trxs : Rollback(t)

Spec == Init /\ [][Next]_vars

(* ---------------------------------------------------------------------- *)
(* The legality workload: one transaction inserting and updating with      *)
(* every kind of value                                                     *)
(* ---------------------------------------------------------------------- *)
MaxLegalSteps == 3

NextLegal ==
    /\ Tick(MaxLegalSteps)
    /\ UNCHANGED <<files, calls>>
    /\ \/ \E values \in LegalInsertInputs : Insert(1, values, NoFault)
       \/ \E u \in LegalUpdateInputs : Update(1, u, <<>>)
       \/ CreateIndex(1, "ix", "b", NoIoFault)
       \/ Commit(1)

SpecLegal == Init /\ [][NextLegal]_vars

(* ---------------------------------------------------------------------- *)
(* The workload on a table as Table::open delivers it when its meta lists  *)
(* an index on column a: empty heap, one empty index, no transaction open  *)
(* ---------------------------------------------------------------------- *)
MaxOpenedSteps == 4

InitOpened ==
    /\ heap = [r \in Rids |-> Blank]
    /\ \E n \in IndexNames : \E a \in IndexAttrs :
          /\ table_meta_ = <<[name |-> n, field |-> a]>>
          /\ indexes_ = <<[name |-> n, field |-> a, entries |-> {}]>>
          /\ disk = [meta |-> <<[name |-> n, field |-> a]>>, tmp |-> NoTmp,
                     index_files |-> {n}]
          /\ handles = {RecordHandle, DataFileHandle, IndexHandle(n)}
    /\ files = NoFiles
    /\ calls = [c \in Callers |-> Idle]
    /\ operations = [t \in Trxs |-> <<>>]
    /\ rc = SUCCESS
    /\ op = [name |-> "init", trx |-> 0]
    /\ pre = [t \in Trxs |-> NoPre]
    /\ steps = 0

NextOpened ==
    /\ Tick(MaxOpenedSteps)
    /\ UNCHANGED <<files, calls>>
    /\ \/ \E t \in Trxs : \E values \in InsertInputs : Insert(t, values, NoFault)
       \/ \E t \in Trxs : \E u \in UpdateInputs : \E conds \in CondInputs : Update(t, u, conds)
       \/ \E t \in Trxs : \E conds \in CondInputs : Delete(t, conds)
       \/ \E t \in Trxs : Commit(t)
       \/ \E t \in Trxs : Rollback(t)

SpecOpened == InitOpened /\ [][NextOpened]_vars

(* ---------------------------------------------------------------------- *)
(* The workload with a failing environment: one transaction and the null   *)
(* transaction, inserts during which the transaction layer or an index     *)
(* write fails, indexes on both columns                                    *)
(* ---------------------------------------------------------------------- *)
MaxFaultSteps == 6

InsertFaults == {NoFault, TrxFault, 1, 2}

FaultInsertInput == <<value_init_integer(1, FALSE), value_init_string(StrFoo, FALSE)>>

FaultIndexes == {[name |-> "ix", attr |-> "a"], [name |-> "b", attr |-> "b"]}

NextFault ==
    /\ Tick(MaxFaultSteps)
    /\ UNCHANGED <<files, calls>>
    /\ \/ \E f \in InsertFaults : Insert(1, FaultInsertInput, f)
       \/ Insert(0, FaultInsertInput, NoFault)
       \/ \E u \in UpdateInputs : Update(1, u, <<>>)
       \/ \E t \in {0, 1} : Delete(t, <<>>)
       \/ \E x \in FaultIndexes : CreateIndex(1, x.name, x.attr, NoIoFault)
       \/ Commit(1)

SpecFault == Init /\ [][NextFault]_vars

(* ---------------------------------------------------------------------- *)
(* The scanning workload: a table with or without an index on column a,    *)
(* scans and updates under every shape of condition, by every transaction  *)
(* and by the null transaction                                             *)
(* ---------------------------------------------------------------------- *)
MaxScanSteps == 3

Int1 == value_init_integer(1, FALSE)

Int2 == value_init_integer(2, FALSE)

\* null filter; attribute and literal on either side, with = and with an
\* order; column b; attribute with attribute; literal with literal; composite
\* filters whose first sub-filter is on literals only, or on column b
ScanInputs ==
    {<<>>,
     <<AttrEq("a", Int1)>>,
     <<Cond(ValueSide(Int1), EQUAL_TO, AttrSide(NoRel, "a"))>>,
     <<Cond(AttrSide(TableName, "a"), LESS_THAN, ValueSide(Int2))>>,
     <<Cond(ValueSide(Int2), GREAT_THAN, AttrSide(NoRel, "a"))>>,
     <<AttrEq("b", value_init_string(StrFoo, FALSE))>>,
     <<Cond(AttrSide(NoRel, "a"), EQUAL_TO, AttrSide(NoRel, "a"))>>,
     <<Cond(ValueSide(Int1), EQUAL_TO, ValueSide(Int1))>>,
     <<Cond(ValueSide(Int1), LESS_THAN, ValueSide(Int2)), AttrEq("a", Int1)>>,
     <<AttrEq("b", value_init_string(StrFoo, FALSE)), AttrEq("a", Int1)>>}

\* conditions of an update: none, qualified with this table, qualified with
\* another table on the left, on the right, in the second condition
UpdateCondInputs ==
    {<<>>,
     <<Cond(AttrSide(TableName, "a"), EQUAL_TO, ValueSide(Int1))>>,
     <<Cond(AttrSide("u", "a"), EQUAL_TO, ValueSide(Int1))>>,
     <<Cond(ValueSide(Int1), EQUAL_TO, AttrSide("u", "a"))>>,
     <<AttrEq("a", Int1), Cond(AttrSide(NoRel, "a"), EQUAL_TO, AttrSide("u", "a"))>>}

ScanLimits == (-1)..(MaxSlots - 1)

InitScan == Init \/ InitOpened

NextScan ==
    /\ Tick(MaxScanSteps)
    /\ UNCHANGED <<files, calls>>
    /\ \/ \E t \in Trxs : \E values \in InsertInputs : Insert(t, values, NoFault)
       \/ \E t \in Trxs : \E u \in UpdateInputs : Update(t, u, <<>>)
       \/ \E t \in Trxs : Commit(t)
       \/ \E t \in {0} \cup Trxs : \E conds \in ScanInputs : \E limit \in ScanLimits :
             Scan(t, conds, limit)

SpecScan == InitScan /\ [][NextScan]_vars

(* ---------------------------------------------------------------------- *)
(* The workload on conditions: one transaction and the null transaction,   *)
(* updates and scans under every shape of condition, an index on column b  *)
(* created on the way                                                      *)
(* ---------------------------------------------------------------------- *)
MaxPathSteps == 3

NextPath ==
    /\ Tick(MaxPathSteps)
    /\ UNCHANGED <<files, calls>>
    /\ \/ \E values \in InsertInputs : Insert(1, values, NoFault)
       \/ \E u \in UpdateInputs : \E conds \in UpdateCondInputs : Update(1, u, conds)
       \/ CreateIndex(1, "ixb", "b", NoIoFault)
       \/ Commit(1)
       \/ \E t \in {0, 1} : \E conds \in ScanInputs : \E limit \in {-1, 1} :
             Scan(t, conds, limit)

SpecPath == InitScan /\ [][NextPath]_vars

(* ---------------------------------------------------------------------- *)
(* The workload on index creation: create_index under every fault of the   *)
(* file system, with blank and unknown names, on a table that takes        *)
(* inserts                                                                 *)
(* ---------------------------------------------------------------------- *)
MaxIndexSteps == 3

CreateIndexFaults == {NoIoFault, CreateFault, OpenTmpFault, SerializeFault, RenameFault}

NextIndex ==
    /\ Tick(MaxIndexSteps)
    /\ UNCHANGED <<files, calls>>
    /\ \/ Insert(1, FaultInsertInput, NoFault)
       \/ \E t \in {0, 1} : \E n \in IndexNames : \E a \in {"a", "b"} :
             \E f \in CreateIndexFaults : CreateIndex(t, n, a, f)
       \/ CreateIndex(1, "", "a", NoIoFault)
       \/ CreateIndex(1, "ix", "zz", NoIoFault)
       \/ Commit(1)

SpecIndex == Init /\ [][NextIndex]_vars

(* ---------------------------------------------------------------------- *)
(* The workload on table creation: the callers of Table::create, each on a *)
(* Table object of its own, interleaved, with every fault of the           *)
(* environment and with blank names and empty attribute lists              *)
(* ---------------------------------------------------------------------- *)
MaxCreateSteps == 6

CreateCounts == {0, 1, 2}

NextCreate ==
    /\ Tick(MaxCreateSteps)
    /\ UNCHANGED <<heap, indexes_, table_meta_, operations, pre, disk, handles>>
    /\ \E c \in Callers :
          \/ \E path \in MetaPaths : \E name \in TableNames : \E count \in CreateCounts :
                \E fault \in {NoCreateFault, OpenFault} :
                  CreateOpen(c, path, name, count, fault)
          \/ \E fault \in {NoCreateFault, MetaInitFault, StreamFault} : CreateMeta(c, fault)
          \/ \E fault \in {NoCreateFault, DataFileFault} : CreateData(c, fault)

SpecCreate == Init /\ [][NextCreate]_vars

(* ---------------------------------------------------------------------- *)
(* The workload on string literals: value_init_string on date-like strings *)
(* in the four layouts, around the ends of the range and of the months,    *)
(* and on strings that are no dates; the value is then checked against a   *)
(* DATE column                                                             *)
(* ---------------------------------------------------------------------- *)
DateField == [name |-> "x", type |-> "DATES", len |-> 4, nullable |-> FALSE]

Digits2(n) == <<48 + (n \div 10), 48 + (n % 10)>>

Digits4(n) == Digits2(n \div 100) \o Digits2(n % 100)

\* the number written with the given count of digits (1 only for n < 10)
Written(n, width) == IF width = 1 THEN <<48 + n>> ELSE Digits2(n)

Widths(n) == IF n < 10 THEN {1, 2} ELSE {2}

DateYears == {1969, 1970, 1999, 2000, 2020, 2021, 2037, 2038, 2039}

DateLike ==
    UNION {{Digits4(ymd[1]) \o <<45>> \o Written(ymd[2], mw) \o <<45>> \o Written(ymd[3], dw) :
              mw \in Widths(ymd[2]), dw \in Widths(ymd[3])} :
           ymd \in DateYears \X (0..13) \X (0..32)}

\* "20210228", "2021/02/28", "2021-02-2a", "2021-02-281", "202-02-28", "foo"
NotDateLike ==
    {<<50, 48, 50, 49, 48, 50, 50, 56>>,
     <<50, 48, 50, 49, 47, 48, 50, 47, 50, 56>>,
     <<50, 48, 50, 49, 45, 48, 50, 45, 50, 97>>,
     <<50, 48, 50, 49, 45, 48, 50, 45, 50, 56, 49>>,
     <<50, 48, 50, 45, 48, 50, 45, 50, 56>>,
     StrFoo}

StringInputs == DateLike \cup NotDateLike

\* one literal per run
\* a column CHARS(10)
CharsField == [name |-> "s", type |-> "CHARS", len |-> 10, nullable |-> FALSE]

InitString(str, is_null) ==
    /\ op.name = "init"
    /\ op' = [name |-> "value_init_string", trx |-> 0, str |-> str, is_null |-> is_null,
              value |-> value_init_string(str, is_null),
              legal |-> is_legal(value_init_string(str, is_null), DateField),
              chars |-> is_legal(value_init_string(str, is_null), CharsField)]
    /\ UNCHANGED <<heap, indexes_, table_meta_, operations, rc, pre, steps, disk,
                   files, calls, handles>>

NextString == \E str \in StringInputs : \E is_null \in BOOLEAN : InitString(str, is_null)

SpecString == Init /\ [][NextString]_vars

(* ---------------------------------------------------------------------- *)
(* value.h: TupleValue::compare of IntValue, FloatValue and StringValue.   *)
(* A tuple value is [kind, value, is_null]; compare returns the set of the *)
(* results the call can deliver, more than one where the behaviour is      *)
(* undefined (signed overflow, the cast of a value of another class) or    *)
(* left to the library (the magnitude of strcmp)                           *)
(* ---------------------------------------------------------------------- *)
INT_MAX == 2147483647

INT_MIN == -2147483647 - 1

\* what undefined behaviour may deliver, among others
AnyResult == {-1, 0, 1}

\* value_ - int_other.value_ in 32-bit signed arithmetic
IntDifference(x, y) ==
    IF y < 0 /\ x > INT_MAX + y
      THEN {((x + INT_MIN) - y) + INT_MIN} \cup AnyResult
      ELSE IF y > 0 /\ x < INT_MIN + y
        THEN {((x - INT_MIN) - y) - INT_MIN} \cup AnyResult
        ELSE {x - y}

\* a variant that looks at the null flag of the left operand only
IntValue_compare_own_flag(this, other) ==
    IF this.is_null THEN {-1}
    ELSE IF other.kind # "int" THEN AnyResult
    ELSE IntDifference(this.value, other.value)

IntValue_compare(this, other) ==
    IF this.is_null \/ other.is_null THEN {-1}
    ELSE IF other.kind # "int" THEN AnyResult
    ELSE IntDifference(this.value, other.value)

\* a float is [nan, units]: not-a-number, or a multiple of half of 1e-6; the
\* difference of two floats below 1e-6 apart counts as 0, and so does any
\* difference with a NaN, for which every comparison is false
FloatValue_compare(this, other) ==
    IF this.is_null \/ other.is_null THEN {-1}
    ELSE IF other.kind # "float" THEN AnyResult
    ELSE IF this.value.nan \/ other.value.nan THEN {0}
    ELSE IF this.value.units - other.value.units > -2
            /\ this.value.units - other.value.units < 2 THEN {0}
    ELSE IF this.value.units - other.value.units > 0 THEN {1}
    ELSE {-1}

\* strcmp: the sign is defined, the magnitude is not
StringValue_compare(this, other) ==
    IF this.is_null \/ other.is_null THEN {-1}
    ELSE IF other.kind # "string" THEN AnyResult
    ELSE IF this.value = other.value THEN {0}
    ELSE IF BytesLess(this.value, other.value) THEN {-1, -2}
    ELSE {1, 2}

compare(this, other) ==
    CASE this.kind = "int" -> IntValue_compare(this, other)
      [] this.kind = "float" -> FloatValue_compare(this, other)
      [] this.kind = "string" -> StringValue_compare(this, other)

TupleValues ==
    [kind : {"int"}, value : {-1, 0, 1, INT_MAX, INT_MIN}, is_null : BOOLEAN]
      \cup [kind : {"float"},
            value : [nan : {FALSE}, units : {-2, 0, 1, 2}]
                      \cup {[nan |-> TRUE, units |-> 0]},
            is_null : BOOLEAN]
      \cup [kind : {"string"}, value : {<<>>, StrFoo, StrBar, StrNULL}, is_null : BOOLEAN]

\* one pair of values per run, compared in both directions
CompareValues(this, other) ==
    /\ op.name = "init"
    /\ \E result \in compare(this, other) : \E reverse \in compare(other, this) :
          op' = [name |-> "compare", trx |-> 0, this |-> this, other |-> other,
                 result |-> result, reverse |-> reverse]
    /\ UNCHANGED <<heap, indexes_, table_meta_, operations, rc, pre, steps, disk,
                   files, calls, handles>>

NextCompare == \E this \in TupleValues : \E other \in TupleValues : CompareValues(this, other)

SpecCompare == Init /\ [][NextCompare]_vars

(* ---------------------------------------------------------------------- *)
(* The workload up to the teardown: a table opened with or without an      *)
(* index takes inserts and new indexes and is then destroyed               *)
(* ---------------------------------------------------------------------- *)
MaxTeardownSteps == 3

NextTeardown ==
    /\ Tick(MaxTeardownSteps)
    /\ UNCHANGED <<files, calls>>
    /\ op.name # "~Table"
    /\ \/ \E values \in InsertInputs : Insert(1, values, NoFault)
       \/ \E n \in IndexNames : \E a \in IndexAttrs :
             \E f \in {NoIoFault, RenameFault} : CreateIndex(1, n, a, f)
       \/ Commit(1)
       \/ Teardown

SpecTeardown == InitScan /\ [][NextTeardown]_vars

(* ---------------------------------------------------------------------- *)
(* Table::scan_record with a reader that may fail and a storage layer that *)
(* may fail: which way the scan leaves its loop, and how often the scanner *)
(* it obtained is closed (heap) or destroyed (index)                       *)
(* ---------------------------------------------------------------------- *)
\* the ways out of scan_record
ExitLimitZero == "limit_zero"
ExitOpen == "open_scan"
ExitEof == "eof"
ExitLimit == "limit"
ExitReader == "reader"
ExitFetch == "fetch"

NoScanner == [heap |-> 0, index |-> 0]

\* a negative limit stands for INT_MAX
EffectiveLimit(limit) == IF limit < 0 THEN INT_MAX ELSE limit

\* the loop over the file scanner: recs are the records the scanner yields (it
\* applies the filter), i the next one, count the records handed over so far;
\* the fetch of record number fetch_fail fails, as does the reader's call
\* number reader_fail (0: never)
RECURSIVE HeapLoop(_, _, _, _, _, _, _, _)
HeapLoop(h, recs, t, limit, reader_fail, fetch_fail, i, got) ==
    IF i = fetch_fail THEN [exit |-> ExitFetch, rc |-> GENERIC_ERROR, rids |-> got]
    ELSE IF i > Len(recs) THEN [exit |-> ExitEof, rc |-> SUCCESS, rids |-> got]
    ELSE IF Len(got) >= limit THEN [exit |-> ExitLimit, rc |-> SUCCESS, rids |-> got]
    ELSE IF t = 0 \/ is_visible(t, h[recs[i]])
      THEN IF Len(got) + 1 = reader_fail
             THEN [exit |-> ExitReader, rc |-> GENERIC_ERROR, rids |-> got]
             ELSE HeapLoop(h, recs, t, limit, reader_fail, fetch_fail, i + 1,
                           Append(got, recs[i]))
      ELSE HeapLoop(h, recs, t, limit, reader_fail, fetch_fail, i + 1, got)

\* a scan that returned from inside the loop when the reader failed
close_scan_skipped_on_reader_failure(exit) == IF exit = ExitReader THEN 0 ELSE 1

\* every way out of the loop runs into scanner.close_scan()
close_scan(exit) == 1

\* the loop over the index scanner: rids are the entries it yields; every
\* entry fetched counts against the limit, handed over or not; the slot of an
\* entry may be empty, and then get_record fails
RECURSIVE IndexLoop(_, _, _, _, _, _, _, _, _, _)
IndexLoop(h, rids, t, conds, limit, reader_fail, fetch_fail, i, record_count, got) ==
    IF record_count >= limit THEN [exit |-> ExitLimit, rc |-> SUCCESS, rids |-> got]
    ELSE IF i = fetch_fail THEN [exit |-> ExitFetch, rc |-> GENERIC_ERROR, rids |-> got]
    ELSE IF i > Len(rids) THEN [exit |-> ExitEof, rc |-> SUCCESS, rids |-> got]
    ELSE IF ~h[rids[i]].used THEN [exit |-> ExitFetch, rc |-> GENERIC_ERROR, rids |-> got]
    ELSE IF (t = 0 \/ is_visible(t, h[rids[i]])) /\ composite_filter(conds, h[rids[i]])
      THEN IF Len(got) + 1 = reader_fail
             THEN [exit |-> ExitReader, rc |-> GENERIC_ERROR, rids |-> got]
             ELSE IndexLoop(h, rids, t, conds, limit, reader_fail, fetch_fail, i + 1,
                            record_count + 1, Append(got, rids[i]))
      ELSE IndexLoop(h, rids, t, conds, limit, reader_fail, fetch_fail, i + 1,
                     record_count + 1, got)

\* every way out of the loop runs into scanner->destroy()
destroy(exit) == 1

\* scan_record(trx, filter, limit, context, record_reader): the records handed
\* over, the code returned, the way out, and the scanners obtained and given up
scan_record_reader(h, idxs, meta, t, conds, limit, reader_fail, fetch_fail, open_fails) ==
    LET ByIndex(index, cond) ==
          LET Left(walk) ==
                [rids |-> walk.rids, rc |-> walk.rc, exit |-> walk.exit,
                 obtained |-> [heap |-> 0, index |-> 1],
                 closed |-> [heap |-> 0, index |-> destroy(walk.exit)]]
          IN Left(IndexLoop(h, IndexScannerRids(index, cond.comp, ValueCondDesc(cond).value),
                            t, conds, EffectiveLimit(limit), reader_fail, fetch_fail,
                            1, 0, <<>>))
        ByHeap ==
          LET Yields(r) == h[r].used /\ composite_filter(conds, h[r])
              Left(walk) ==
                [rids |-> walk.rids, rc |-> walk.rc, exit |-> walk.exit,
                 obtained |-> [heap |-> 1, index |-> 0],
                 closed |-> [heap |-> close_scan(walk.exit), index |-> 0]]
          IN IF open_fails
               THEN [rids |-> <<>>, rc |-> GENERIC_ERROR, exit |-> ExitOpen,
                     obtained |-> NoScanner, closed |-> NoScanner]
               ELSE Left(HeapLoop(h, SelectSeq(SortedSeq(DOMAIN h), Yields), t,
                                  EffectiveLimit(limit), reader_fail, fetch_fail,
                                  1, <<>>))
        Path(i) ==
          IF i # 0 THEN ByIndex(idxs[IndexForCond(idxs, meta, conds[i])], conds[i])
          ELSE ByHeap
    IN IF limit = 0
         THEN [rids |-> <<>>, rc |-> SUCCESS, exit |-> ExitLimitZero,
               obtained |-> NoScanner, closed |-> NoScanner]
         ELSE Path(find_index_for_scan(idxs, meta, conds))

ScanReader(t, conds, limit, reader_fail, fetch_fail, open_fails) ==
    /\ LET Apply(scan) ==
             /\ rc' = scan.rc
             /\ op' = [name |-> "scan_record", trx |-> t, conds |-> conds,
                       limit |-> limit, rids |-> scan.rids, exit |-> scan.exit,
                       obtained |-> scan.obtained, closed |-> scan.closed]
       IN Apply(scan_record_reader(heap, indexes_, table_meta_, t, conds, limit,
                                   reader_fail, fetch_fail, open_fails))
    /\ UNCHANGED <<heap, indexes_, table_meta_, operations, pre, disk, handles>>

\* the workload of the scans that fail: one transaction and the null one, the
\* null filter, an equality and an order on the indexed column
MaxReaderSteps == 3

ReaderConds ==
    {<<>>,
     <<AttrEq("a", Int1)>>,
     <<Cond(AttrSide(TableName, "a"), LESS_THAN, ValueSide(Int2))>>}

ReaderLimits == {-1, 0, 1}

FailAt == 0..2

NextReader ==
    /\ Tick(MaxReaderSteps)
    /\ UNCHANGED <<files, calls>>
    /\ \/ \E values \in InsertInputs : Insert(1, values, NoFault)
       \/ \E u \in UpdateInputs : Update(1, u, <<>>)
       \/ Commit(1)
       \/ \E t \in {0, 1} : \E conds \in ReaderConds : \E limit \in ReaderLimits :
            \E reader_fail \in FailAt : \E fetch_fail \in FailAt :
              \E open_fails \in BOOLEAN :
                ScanReader(t, conds, limit, reader_fail, fetch_fail, open_fails)

SpecReader == InitScan /\ [][NextReader]_vars

(* ---------------------------------------------------------------------- *)
(* The workload of the updates that fail: a table opened with or without   *)
(* an index on column a, one transaction, updates with legal and illegal   *)
(* values and of a column the table does not have, over all records or the *)
(* records with a = 1                                                      *)
(* ---------------------------------------------------------------------- *)
MaxUpdateSteps == 3

UpdateColumnInputs ==
    LegalUpdateInputs \cup {[attr |-> "c", value |-> Int2]}

NextUpdate ==
    /\ Tick(MaxUpdateSteps)
    /\ UNCHANGED <<files, calls>>
    /\ \/ \E values \in InsertInputs : Insert(1, values, NoFault)
       \/ \E u \in UpdateColumnInputs : \E conds \in CondInputs : Update(1, u, conds)
       \/ Commit(1)

SpecUpdate == InitScan /\ [][NextUpdate]_vars

(* ---------------------------------------------------------------------- *)
(* Table::open(meta_file, base_dir) on a new Table object: the metadata is *)
(* read, the record handler initialised on the data file, and the index    *)
(* files the metadata lists are opened in order                            *)
(* ---------------------------------------------------------------------- *)
\* faults of the storage under Table::open: the metadata file cannot be
\* opened or parsed, the data file cannot be opened in the buffer pool, the
\* record handler cannot be initialised on it
NoOpenFault == "none"
MetaOpenFault == "meta_open"
DeserializeFault == "deserialize"
OpenFileFault == "open_file"
HandlerInitFault == "handler_init"

\* init_record_handler: the code it returns and the handles it leaves
init_record_handler(fault) ==
    IF fault = OpenFileFault THEN [rc |-> IOERR, handles |-> {}]
    ELSE IF fault = HandlerInitFault
      THEN [rc |-> GENERIC_ERROR, handles |-> {DataFileHandle, RecordHandle}]
      ELSE [rc |-> SUCCESS, handles |-> {DataFileHandle, RecordHandle}]

\* the loop over the indexes of the metadata; the index number index_fail
\* cannot be opened (0: all can); st = [rc, indexes, handles]
RECURSIVE open_indexes(_, _, _, _)
open_indexes(st, meta, index_fail, i) ==
    IF i > Len(meta) THEN st
    ELSE IF find_field_index_by_name(meta[i].field) = -1
      THEN [st EXCEPT !.rc = GENERIC_ERROR]
    ELSE IF i = index_fail
      THEN [st EXCEPT !.rc = IOERR]
    ELSE open_indexes([rc |-> SUCCESS,
                       indexes |-> Append(st.indexes,
                                          [name |-> meta[i].name, field |-> meta[i].field,
                                           entries |-> {}]),
                       handles |-> st.handles \cup {IndexHandle(meta[i].name)}],
                      meta, index_fail, i + 1)

\* Table::open: the code of init_record_handler is the one returned only if
\* the loop assigns no other
table_open(meta, fault, index_fail) ==
    LET Loaded(h) ==
          [table_meta |-> meta] @@
          open_indexes([rc |-> h.rc, indexes |-> <<>>, handles |-> h.handles],
                       meta, index_fail, 1)
    IN IF fault = MetaOpenFault
         THEN [rc |-> IOERR, table_meta |-> <<>>, indexes |-> <<>>, handles |-> {}]
       ELSE IF fault = DeserializeFault
         THEN [rc |-> GENERIC_ERROR, table_meta |-> <<>>, indexes |-> <<>>, handles |-> {}]
       ELSE Loaded(init_record_handler(fault))

Open(meta, fault, index_fail) ==
    /\ op.name = "init"
    /\ LET Apply(r) ==
             /\ rc' = r.rc
             /\ table_meta_' = r.table_meta
             /\ indexes_' = r.indexes
             /\ handles' = r.handles
       IN Apply(table_open(meta, fault, index_fail))
    /\ op' = [name |-> "open", trx |-> 0, meta |-> meta, fault |-> fault,
              index_fail |-> index_fail]
    /\ disk' = [disk EXCEPT !.meta = meta,
                            !.index_files = {meta[i].name : i \in 1..Len(meta)}]
    /\ UNCHANGED <<heap, operations, pre>>

\* the metadata files opened: no index, one, two, and one on a column the
\* table does not have
MaxOpenIndexes == 2

OpenIndexMetas ==
    {[name |-> "a", field |-> "a"], [name |-> "ix", field |-> "a"],
     [name |-> "ixb", field |-> "b"], [name |-> "ixc", field |-> "c"]}

OpenMetas ==
    UNION {{m \in [1..n -> OpenIndexMetas] :
              \A i, j \in 1..n : i # j => m[i].name # m[j].name} :
           n \in 0..MaxOpenIndexes}

OpenFaults ==
    {NoOpenFault, MetaOpenFault, DeserializeFault, OpenFileFault, HandlerInitFault}

\* a Table object before open: nothing loaded, no handle held
InitClosed ==
    /\ heap = [r \in Rids |-> Blank]
    /\ indexes_ = <<>>
    /\ table_meta_ = <<>>
    /\ operations = [t \in Trxs |-> <<>>]
    /\ rc = SUCCESS
    /\ op = [name |-> "init", trx |-> 0]
    /\ pre = [t \in Trxs |-> NoPre]
    /\ steps = 0
    /\ disk = [meta |-> <<>>, tmp |-> NoTmp, index_files |-> {}]
    /\ files = NoFiles
    /\ calls = [c \in Callers |-> Idle]
    /\ handles = {}

NextOpen ==
    /\ UNCHANGED <<files, calls, steps>>
    /\ \E meta \in OpenMetas : \E fault \in OpenFaults :
         \E index_fail \in 0..MaxOpenIndexes : Open(meta, fault, index_fail)

SpecOpen == InitClosed /\ [][NextOpen]_vars

(* ---------------------------------------------------------------------- *)
(* The workload of the inserts that fail under a transaction: a table      *)
(* opened with or without an index, inserts that fail in the transaction   *)
(* or in an index, and the end of the transaction                          *)
(* ---------------------------------------------------------------------- *)
MaxInsertSteps == 3

NextInsert ==
    /\ Tick(MaxInsertSteps)
    /\ UNCHANGED <<files, calls>>
    /\ \/ \E values \in InsertInputs : \E f \in InsertFaults : Insert(1, values, f)
       \/ Commit(1)
       \/ Rollback(1)

SpecInsert == InitScan /\ [][NextInsert]_vars

(* ---------------------------------------------------------------------- *)
(* parse.cpp: number_to_str(number)                                        *)
(* ---------------------------------------------------------------------- *)
\* number / 10 and number % 10 of C: the quotient is truncated towards zero
\* and the remainder has the sign of the dividend
Quotient10(n) ==
    IF n >= 0 THEN n \div 10
    ELSE IF n > -10 THEN 0
    ELSE -((-(n + 10)) \div 10) - 1

Remainder10(n) ==
    IF n >= 0 THEN n % 10
    ELSE IF n > -10 THEN n
    ELSE -((-(n + 10)) % 10)

\* while (number != 0) { s[idx++] = number % 10 + '0'; number /= 10; }
RECURSIVE DigitLoop(_, _)
DigitLoop(number, s) ==
    IF number = 0 THEN s
    ELSE DigitLoop(Quotient10(number), Append(s, Remainder10(number) + 48))

\* number = -number, then the loop; -INT_MIN overflows, which is undefined:
\* the number may stay INT_MIN, or be carried on as 2147483648
NegatedDigits(n) ==
    IF n = INT_MIN
      THEN {DigitLoop(INT_MIN, <<>>), DigitLoop(214748364, <<56>>)}
      ELSE {DigitLoop(-n, <<>>)}

\* the strings number_to_str may return: s is copied into ret from its first
\* character on, after the minus sign if there is one
number_to_str(n) ==
    IF n = 0 THEN {<<48>>}
    ELSE IF n < 0 THEN {<<45>> \o d : d \in NegatedDigits(n)}
    ELSE {DigitLoop(n, <<>>)}

\* one call per run
NumberToStr(n) ==
    /\ op.name = "init"
    /\ \E str \in number_to_str(n) :
          op' = [name |-> "number_to_str", trx |-> 0, number |-> n, str |-> str]
    /\ UNCHANGED <<heap, indexes_, table_meta_, operations, rc, pre, steps, disk,
                   files, calls, handles>>

\* the numbers of up to three digits, and some of the longest
MaxNumber == 120

Numbers ==
    ((-MaxNumber)..MaxNumber) \cup {12345, -12345, 1000000, INT_MAX, -INT_MAX, INT_MIN}

NextNumber == \E n \in Numbers : NumberToStr(n)

SpecNumber == Init /\ [][NextNumber]_vars

(* ---------------------------------------------------------------------- *)
(* Views used by the properties                                            *)
(* ---------------------------------------------------------------------- *)
\* the conditions a scan is asked with
ScanConds ==
    {<<>>} \cup {<<AttrEq("a", value_init_integer(n, FALSE))>> : n \in {1, 2}}

\* what an unfiltered scan_record delivers to transaction u: RIDs with contents
View(h, idxs, meta, u) ==
    {[rid |-> r, data |-> h[r].data, nulls |-> h[r].nulls] :
        r \in {scan_record(h, idxs, meta, u, <<>>, -1).rids[k] :
                 k \in 1..Len(scan_record(h, idxs, meta, u, <<>>, -1).rids)}}

Delivered(t, conds) ==
    {scan_record(heap, indexes_, table_meta_, t, conds, -1).rids[k] :
        k \in 1..Len(scan_record(heap, indexes_, table_meta_, t, conds, -1).rids)}

LoggedRids(log, type) == {log[k].rid : k \in {j \in 1..Len(log) : log[j].type = type}}

(* ---------------------------------------------------------------------- *)
(* C1: every entry of every index refers to an occupied heap slot          *)
(* ---------------------------------------------------------------------- *)
C1_IndexEntriesPointToLiveRecords ==
    \A i \in 1..Len(indexes_) : \A e \in indexes_[i].entries : heap[e.rid].used

(* ---------------------------------------------------------------------- *)
(* C2: every record in the heap has, in every index, an entry keyed by its *)
(* current value of the indexed column                                     *)
(* ---------------------------------------------------------------------- *)
C2_LiveRecordsAreIndexed ==
    \A r \in Rids : heap[r].used =>
        \A i \in 1..Len(indexes_) :
            EntryOf(indexes_[i], heap[r], r) \in indexes_[i].entries

(* ---------------------------------------------------------------------- *)
(* C3: after a rollback of transaction T, which ran without interference,  *)
(* every transaction sees the records, with the contents, that it saw      *)
(* before T started                                                        *)
(* ---------------------------------------------------------------------- *)
C3_RollbackRestoresVisibleState ==
    (/\ op.name = "rollback"
     /\ op.pre.solo
     /\ \A k \in 1..Len(op.pre.ops) : op.pre.ops[k] \in {"insert", "delete", "update"}) =>
        \A u \in Trxs :
            View(heap, indexes_, table_meta_, u)
              = View(op.pre.heap, op.pre.indexes, table_meta_, u)

(* ---------------------------------------------------------------------- *)
(* C4: BEGIN; UPDATE of column b; ROLLBACK leaves column b of every record *)
(* with its value from before the update, as a later scan sees it          *)
(* ---------------------------------------------------------------------- *)
C4_UpdateRollbackKeepsOldValue ==
    (op.name = "rollback" /\ op.pre.solo /\ op.pre.ops = <<"update">>) =>
        \A u \in Trxs :
            \A v \in View(op.pre.heap, op.pre.indexes, table_meta_, u) :
                \E w \in View(heap, indexes_, table_meta_, u) :
                    /\ w.rid = v.rid
                    /\ w.data[UserCol("b")] = v.data[UserCol("b")]

(* ---------------------------------------------------------------------- *)
(* C5: after T commits, every record T inserted (and did not delete) is    *)
(* delivered by scan_record to every transaction, and every record T       *)
(* deleted is gone from the heap and from every index                      *)
(* ---------------------------------------------------------------------- *)
C5_CommitMakesWritesDurable ==
    op.name = "commit" =>
        /\ \A r \in LoggedRids(op.log, "INSERT") \ LoggedRids(op.log, "DELETE") :
              \A u \in Trxs : r \in Delivered(u, <<>>)
        /\ \A r \in LoggedRids(op.log, "DELETE") :
              /\ ~heap[r].used
              /\ \A u \in Trxs : r \notin Delivered(u, <<>>)
              /\ \A i \in 1..Len(indexes_) : \A e \in indexes_[i].entries : e.rid # r

(* ---------------------------------------------------------------------- *)
(* C6: an insert, delete or update by a transaction T does not change what *)
(* scan_record delivers to any other transaction                           *)
(* ---------------------------------------------------------------------- *)
C6_UncommittedWritesInvisibleToOthers ==
    [][\A t \in Trxs :
         (op'.name \in {"insert", "delete", "update"} /\ op'.trx = t) =>
            \A u \in Trxs \ {t} :
                View(heap', indexes_', table_meta_', u)
                  = View(heap, indexes_, table_meta_, u)]_vars

(* ---------------------------------------------------------------------- *)
(* C7: an open transaction T is delivered the records it inserted and the  *)
(* records it updated, with the values it wrote, and is not delivered the  *)
(* records it marked deleted, whichever way the scan is carried out        *)
(* ---------------------------------------------------------------------- *)
C7_OwnWritesVisible ==
    \A t \in Trxs :
        /\ \A conds \in ScanConds :
              /\ \A r \in LoggedRids(operations[t], "INSERT")
                            \ LoggedRids(operations[t], "DELETE") :
                    (heap[r].used /\ heap[r].trx = t /\ composite_filter(conds, heap[r]))
                        => r \in Delivered(t, conds)
              /\ \A r \in LoggedRids(operations[t], "DELETE") : r \notin Delivered(t, conds)
        /\ (op.name = "update" /\ op.trx = t /\ rc = SUCCESS) =>
              \A r \in {op.rids[k] : k \in 1..Len(op.rids)} :
                  /\ heap[r].data[UserCol(op.attr)]
                       = FieldBytes(op.value.data, Fields[UserCol(op.attr) + sys_field_num])
                  /\ r \in Delivered(t, <<>>)
                  /\ r \in Delivered(t, <<AttrEq(op.attr, op.value)>>)

(* ---------------------------------------------------------------------- *)
(* C8: a transaction that, undisturbed, inserts a record, deletes it and   *)
(* commits leaves the heap and every index as they were before the insert  *)
(* ---------------------------------------------------------------------- *)
InsertThenDeleteCommitted ==
    /\ op.name = "commit"
    /\ op.pre.solo
    /\ op.pre.ops = <<"insert", "delete">>
    /\ Len(op.log) = 2
    /\ op.log[1].type = "INSERT"
    /\ op.log[2].type = "DELETE"
    /\ op.log[1].rid = op.log[2].rid

C8_InsertDeleteCommitIsIdentity ==
    InsertThenDeleteCommitted =>
        /\ heap = op.pre.heap
        /\ {r \in Rids : heap[r].used} = {r \in Rids : op.pre.heap[r].used}
        /\ indexes_ = op.pre.indexes

\* the case happens with an index to maintain and another record in the heap
C8_Witness ==
    /\ InsertThenDeleteCommitted
    /\ rc = SUCCESS
    /\ Len(indexes_) > 0
    /\ \E r \in Rids : heap[r].used /\ r # op.log[1].rid

(* ---------------------------------------------------------------------- *)
(* C9: no record in the heap has the null flag set for a column declared   *)
(* non-nullable                                                            *)
(* ---------------------------------------------------------------------- *)
C9_NonNullableNeverNull ==
    \A r \in Rids : heap[r].used =>
        \A c \in UserCols : ~Fields[c + sys_field_num].nullable => ~heap[r].nulls[c]

(* ---------------------------------------------------------------------- *)
(* C10: insert_record with a value list of the wrong length, or holding a  *)
(* value of another type than its column, a NULL for a non-nullable column *)
(* or a CHARS value longer than its column, returns a non-SUCCESS code     *)
(* (SCHEMA_FIELD_MISSING when too-long CHARS values are all that is wrong) *)
(* and leaves the heap, the indexes and the operation log unchanged        *)
(* ---------------------------------------------------------------------- *)
WrongType(v, f) == v.type # "NULLS" /\ v.type # f.type

NullForNonNullable(v, f) == v.type = "NULLS" /\ ~f.nullable

TooLongChars(v, f) == v.type = "CHARS" /\ f.type = "CHARS" /\ Len(v.data) > f.len

WrongCount(values) == Len(values) # field_num - sys_field_num

BadInsert(values) ==
    \/ WrongCount(values)
    \/ \E i \in 1..Len(values) :
          \/ WrongType(values[i], Fields[i + sys_field_num])
          \/ NullForNonNullable(values[i], Fields[i + sys_field_num])
          \/ TooLongChars(values[i], Fields[i + sys_field_num])

OnlyTooLong(values) ==
    /\ ~WrongCount(values)
    /\ \E i \in 1..Len(values) : TooLongChars(values[i], Fields[i + sys_field_num])
    /\ \A i \in 1..Len(values) :
          /\ ~WrongType(values[i], Fields[i + sys_field_num])
          /\ ~NullForNonNullable(values[i], Fields[i + sys_field_num])

C10_IllegalInsertRejected ==
    [][(op'.name = "insert" /\ BadInsert(op'.values)) =>
          /\ rc' # SUCCESS
          /\ heap' = heap
          /\ indexes_' = indexes_
          /\ operations' = operations
          /\ (OnlyTooLong(op'.values) => rc' = SCHEMA_FIELD_MISSING)]_vars

\* a too-long CHARS value was refused by a table holding a record and an index
C10_Witness ==
    /\ op.name = "insert"
    /\ OnlyTooLong(op.values)
    /\ rc = SCHEMA_FIELD_MISSING
    /\ \E r \in Rids : heap[r].used
    /\ Len(indexes_) > 0
    /\ operations[1] # <<>>

(* ---------------------------------------------------------------------- *)
(* C11: when insert_record fails after the record was placed in the heap   *)
(* (the transaction refuses to log it, or the insertion into some index    *)
(* fails), the heap and the contents of every index are on return what     *)
(* they were before the call                                               *)
(* ---------------------------------------------------------------------- *)
\* the call got as far as placing the record: its values made a record
PlacedThenFailed(o, code) ==
    /\ o.name = "insert"
    /\ Len(o.values) > 0
    /\ make_record(o.values).rc = SUCCESS
    /\ code # SUCCESS

C11_FailedInsertLeavesNoTrace ==
    [][PlacedThenFailed(op', rc') => (heap' = heap /\ indexes_' = indexes_)]_vars

(* ---------------------------------------------------------------------- *)
(* C12: after update_record succeeded on a record, every index on the      *)
(* updated column, whatever its name, holds the entry (new value, RID) of  *)
(* the record and no longer holds its entry (old value, RID)               *)
(* ---------------------------------------------------------------------- *)
C12_UpdateMaintainsIndex ==
    [][(op'.name = "update" /\ rc' = SUCCESS) =>
         \A k \in 1..Len(op'.rids) :
           \A i \in 1..Len(indexes_) :
             indexes_[i].field = op'.attr =>
               LET r == op'.rids[k]
                   old == EntryOf(indexes_[i], heap[r], r)
                   new == EntryOf(indexes_'[i], heap'[r], r)
               IN /\ new \in indexes_'[i].entries
                  /\ (old # new => old \notin indexes_'[i].entries)]_vars

(* ---------------------------------------------------------------------- *)
(* C13: update_record given a condition whose left or right attribute      *)
(* carries the name of another table returns SCHEMA_TABLE_NAME_ILLEGAL     *)
(* and changes no heap record and no index entry                           *)
(* ---------------------------------------------------------------------- *)
OtherTable(side) == side.is_attr /\ side.rel \notin {NoRel, TableName}

NamesOtherTable(conds) ==
    \E i \in 1..Len(conds) : OtherTable(conds[i].left) \/ OtherTable(conds[i].right)

C13_ForeignConditionRejected ==
    [][(op'.name = "update" /\ NamesOtherTable(op'.conds)) =>
          /\ rc' = SCHEMA_TABLE_NAME_ILLEGAL
          /\ heap' = heap
          /\ indexes_' = indexes_]_vars

\* refused for a right-hand attribute, on a table whose record the update
\* would otherwise have changed
C13_Witness ==
    /\ op.name = "update"
    /\ \E i \in 1..Len(op.conds) :
          OtherTable(op.conds[i].right) /\ ~OtherTable(op.conds[i].left)
    /\ rc = SCHEMA_TABLE_NAME_ILLEGAL
    /\ Len(indexes_) > 0
    /\ \E r \in Rids : heap[r].used /\ is_visible(op.trx, heap[r])
                         /\ heap[r].data[UserCol("a")] = <<1>>

(* ---------------------------------------------------------------------- *)
(* C15: with a negative limit scan_record hands to the callback, once      *)
(* each, exactly the heap records visible to trx (all when trx is null)    *)
(* that satisfy the filter (all when the filter is null), on either path   *)
(* and with the literal on either side                                     *)
(* ---------------------------------------------------------------------- *)
\* the records a scan by t under conds has to deliver
Matching(t, conds) ==
    {r \in Rids : /\ heap[r].used
                  /\ (t = 0 \/ is_visible(t, heap[r]))
                  /\ composite_filter(conds, heap[r])}

NoRepeats(seq) == \A i, j \in 1..Len(seq) : seq[i] = seq[j] => i = j

Range(seq) == {seq[k] : k \in 1..Len(seq)}

C15_UnlimitedScanDeliversMatching ==
    (op.name = "scan" /\ op.limit < 0) =>
        /\ NoRepeats(op.rids)
        /\ Range(op.rids) = Matching(op.trx, op.conds)

(* ---------------------------------------------------------------------- *)
(* C16: scan_record with limit 0 hands nothing to the callback and returns *)
(* SUCCESS; with limit n > 0 it hands over exactly min(n, number of        *)
(* visible records satisfying the filter) records, on either path          *)
(* ---------------------------------------------------------------------- *)
C16_LimitedScanDeliversMin ==
    (op.name = "scan" /\ op.limit >= 0) =>
        /\ op.limit = 0 => (op.rids = <<>> /\ rc = SUCCESS)
        /\ NoRepeats(op.rids)
        /\ Range(op.rids) \subseteq Matching(op.trx, op.conds)
        /\ Len(op.rids) = Min(op.limit, Cardinality(Matching(op.trx, op.conds)))

(* ---------------------------------------------------------------------- *)
(* C17: a scan that is carried out (limit not 0) goes through an index iff *)
(* some sub-filter compares an attribute on one side with a literal on the *)
(* other and the metadata lists an index on that attribute; the index of   *)
(* the first such sub-filter is used; every other scan goes over the heap  *)
(* ---------------------------------------------------------------------- *)
AttrWithLiteral(cond) == cond.left.is_attr # cond.right.is_attr

AttrOf(cond) == IF cond.left.is_attr THEN cond.left.attr ELSE cond.right.attr

Indexable(cond) ==
    /\ AttrWithLiteral(cond)
    /\ \E i \in 1..Len(table_meta_) : table_meta_[i].field = AttrOf(cond)

PendingDelete(r) == heap[r].used /\ heap[r].deleted /\ heap[r].trx # 0

\* the entries of RID r in the indexes idxs
EntriesOf(idxs, r) ==
    [i \in 1..Len(idxs) |-> {e \in idxs[i].entries : e.rid = r}]

DeleteFrame ==
    (op'.name = "delete" /\ op'.trx # 0) =>
        /\ indexes_' = indexes_
        /\ \A r \in Rids : heap'[r].used = heap[r].used

\* this step takes away the heap slot of r or one of its index entries
Removes(r) ==
    \/ ~heap'[r].used
    \/ \E i \in 1..Len(indexes_) :
          ~(EntriesOf(indexes_, r)[i] \subseteq EntriesOf(indexes_', r)[i])

ByCommitDelete(r) ==
    /\ op'.name = "commit"
    /\ op'.trx = heap[r].trx
    /\ r \in LoggedRids(op'.log, "DELETE")

ByRollbackInsert(r) ==
    /\ op'.name = "rollback"
    /\ op'.trx = heap[r].trx
    /\ r \in LoggedRids(op'.log, "INSERT")

AlreadyIndexed(name, attr) ==
    \E i \in 1..Len(table_meta_) :
        table_meta_[i].name = name \/ table_meta_[i].field = attr

C18_SecondIndexRefused ==
    [][(op'.name = "create_index" /\ AlreadyIndexed(op'.index, op'.attr)) =>
          /\ rc' = SCHEMA_INDEX_EXIST
          /\ disk' = disk
          /\ indexes_' = indexes_
          /\ table_meta_' = table_meta_]_vars

\* C18 as the code has it: the arguments are validated first, so a call with a
\* blank index name on an indexed column returns INVALID_ARGUMENT; every other
\* call for an existing name or an indexed column returns SCHEMA_INDEX_EXIST,
\* and in both cases no file is created and index list and metadata stay
C18_SecondIndexRefusedAfterValidation ==
    [][(op'.name = "create_index" /\ AlreadyIndexed(op'.index, op'.attr)) =>
          /\ rc' = IF op'.index = "" THEN INVALID_ARGUMENT ELSE SCHEMA_INDEX_EXIST
          /\ disk' = disk
          /\ indexes_' = indexes_
          /\ table_meta_' = table_meta_]_vars

\* refused for the column alone: an index of another name on the same column
C18_Witness ==
    /\ op.name = "create_index"
    /\ rc = SCHEMA_INDEX_EXIST
    /\ op.fault = NoIoFault
    /\ \A i \in 1..Len(table_meta_) : table_meta_[i].name # op.index
    /\ \E i \in 1..Len(table_meta_) : table_meta_[i].field = op.attr
    /\ op.index \notin disk.index_files

(* ---------------------------------------------------------------------- *)
(* C19: right after create_index returned SUCCESS the new index holds      *)
(* exactly one entry for every record in the heap, whatever transaction    *)
(* was passed                                                              *)
(* ---------------------------------------------------------------------- *)
C19_NewIndexCoversHeap ==
    [][(op'.name = "create_index" /\ rc' = SUCCESS) =>
          LET index == indexes_'[Len(indexes_')]
          IN /\ index.name = op'.index
             /\ index.entries
                  = {EntryOf(index, heap'[r], r) : r \in {q \in Rids : heap'[q].used}}]_vars

(* ---------------------------------------------------------------------- *)
(* C20: create_index replaces the persisted metadata only by the rename of *)
(* a completely written .tmp file, swaps the metadata in memory only after *)
(* that rename succeeded, and whenever it returns non-success leaves the   *)
(* persisted and the in-memory metadata as they were                       *)
(* ---------------------------------------------------------------------- *)
C20_MetadataSwappedAtomically ==
    [][op'.name = "create_index" =>
          /\ disk'.meta # disk.meta =>
                /\ rc' = SUCCESS
                /\ disk'.meta = Append(table_meta_,
                                       [name |-> op'.index, field |-> op'.attr])
                /\ disk'.tmp.state = "absent"
          /\ table_meta_' # table_meta_ => disk'.meta = table_meta_'
          /\ rc' # SUCCESS => (disk'.meta = disk.meta /\ table_meta_' = table_meta_)]_vars

\* the rename failed: the .tmp file is complete, the index is built and in the
\* index list, and the metadata on disk and in memory are the old ones
C20_Witness ==
    /\ op.name = "create_index"
    /\ op.fault = RenameFault
    /\ rc = IOERR
    /\ disk.tmp.state = "complete"
    /\ disk.meta = table_meta_
    /\ Len(indexes_) > Len(table_meta_)
    /\ indexes_[Len(indexes_)].entries # {}

(* ---------------------------------------------------------------------- *)
(* C21: Table::create returns SCHEMA_TABLE_EXIST when the metadata file at *)
(* the given path already exists and leaves the existing metadata and data *)
(* files unmodified; of two create calls for the same path at most one     *)
(* returns SUCCESS                                                         *)
(* ---------------------------------------------------------------------- *)
\* caller c enters Table::create in this step
Enters(c) == calls[c].pc = "idle" /\ calls'[c].pc # "idle"

AtMostOneCreates ==
    \A c \in Callers : \A d \in Callers :
        (c # d /\ calls[c].pc = "returned" /\ calls[d].pc = "returned"
         /\ calls[c].rc = SUCCESS /\ calls[d].rc = SUCCESS)
          => calls[c].path # calls[d].path

AllDigits(str) == \A i \in 1..Len(str) : str[i] >= 48 /\ str[i] <= 57

RECURSIVE NumberOf(_)
NumberOf(str) ==
    IF str = <<>> THEN 0
    ELSE 10 * NumberOf(SubSeq(str, 1, Len(str) - 1)) + (str[Len(str)] - 48)

\* the position of the second dash of a string of the form dddd-d[d]-d[d], 0 if
\* the string has not that form
SecondDash(str) ==
    IF \E k \in {7, 8} :
         /\ Len(str) \in {k + 1, k + 2}
         /\ str[5] = 45 /\ str[k] = 45
         /\ AllDigits(SubSeq(str, 1, 4))
         /\ AllDigits(SubSeq(str, 6, k - 1))
         /\ AllDigits(SubSeq(str, k + 1, Len(str)))
      THEN CHOOSE k \in {7, 8} :
             /\ Len(str) \in {k + 1, k + 2}
             /\ str[5] = 45 /\ str[k] = 45
             /\ AllDigits(SubSeq(str, 6, k - 1))
      ELSE 0

LeapYear(y) == (y % 4 = 0 /\ y % 100 # 0) \/ y % 400 = 0

DaysIn(y, m) ==
    IF m = 2 THEN (IF LeapYear(y) THEN 29 ELSE 28)
    ELSE IF m \in {4, 6, 9, 11} THEN 30 ELSE 31

\* the packed date the string denotes, 0 if it denotes none in the range
DateOf(str) ==
    IF SecondDash(str) = 0 THEN 0
    ELSE LET Packed(y, m, d) ==
               IF /\ m \in 1..12
                  /\ d >= 1 /\ d <= DaysIn(y, m)
                  /\ y * 10000 + m * 100 + d >= 19700101
                  /\ y * 10000 + m * 100 + d <= 20380131
                 THEN y * 10000 + m * 100 + d
                 ELSE 0
         IN Packed(NumberOf(SubSeq(str, 1, 4)),
                   NumberOf(SubSeq(str, 6, SecondDash(str) - 1)),
                   NumberOf(SubSeq(str, SecondDash(str) + 1, Len(str))))

C22_DateLiteralsTyped ==
    (op.name = "value_init_string" /\ ~op.is_null) =>
       IF DateOf(op.str) # 0
         THEN /\ op.value.type = "DATES"
              /\ op.value.data = <<DateOf(op.str)>>
              /\ op.legal = SUCCESS
         ELSE /\ op.value.type = "CHARS"
              /\ op.value.data = op.str
              /\ op.legal = SCHEMA_FIELD_TYPE_MISMATCH

\* "2021-02-29": of the form of a date, typed CHARS, refused by the DATE column
C22_Witness ==
    /\ op.name = "value_init_string"
    /\ ~op.is_null
    /\ op.str = StrLeapBad
    /\ op.value.type = "CHARS"
    /\ op.legal = SCHEMA_FIELD_TYPE_MISMATCH

(* ---------------------------------------------------------------------- *)
(* C23: after any sequence of insert_record and update_record calls, a     *)
(* column of a heap record whose null flag is set holds the sentinel of    *)
(* its type: 0 for INT and FLOAT, 19700101 for DATE, the text NULL for     *)
(* CHARS                                                                   *)
(* ---------------------------------------------------------------------- *)
C23_NullColumnsHoldSentinel ==
    \A r \in Rids : \A c \in UserCols :
        (heap[r].used /\ heap[r].nulls[c]) =>
           heap[r].data[c] = NullSentinel(Fields[c + sys_field_num])

(* ---------------------------------------------------------------------- *)
(* C24: compare of IntValue, FloatValue and StringValue returns a non-zero *)
(* result whenever either operand is NULL, also when both are             *)
(* ---------------------------------------------------------------------- *)
C24_NullComparesUnequal ==
    (op.name = "compare" /\ (op.this.is_null \/ op.other.is_null)) => op.result # 0

\* NULL compared with NULL, of the same value
C24_Witness ==
    /\ op.name = "compare"
    /\ op.this.is_null /\ op.other.is_null
    /\ op.this = op.other
    /\ op.result # 0

(* ---------------------------------------------------------------------- *)
(* C25: when a Table is torn down, every index handler it opened in open   *)
(* or created in create_index is closed and released, and so are its       *)
(* record handler and its data file                                        *)
(* ---------------------------------------------------------------------- *)
C25_TeardownReleasesHandlers ==
    op.name = "~Table" => handles = {}

Overwritten(rec, attr, value) ==
    [rec EXCEPT !.data[UserCol(attr)] =
                    FieldBytes(value.data, Fields[UserCol(attr) + sys_field_num]),
                !.nulls[UserCol(attr)] = value.is_null]

C27_UpdateInPlaceUnlogged ==
    [][(op'.name = "update" /\ op'.trx # 0) =>
         /\ operations' = operations
         /\ rc' = SUCCESS =>
              \A r \in Rids :
                 heap'[r] = IF \E k \in 1..Len(op'.rids) : op'.rids[k] = r
                              THEN Overwritten(heap[r], op'.attr, op'.value)
                              ELSE heap[r]]_vars

\* an update under transaction 1 changed a record that transaction 1 had
\* inserted and not yet committed
C27_Witness ==
    /\ op.name = "update"
    /\ op.trx = 1
    /\ rc = SUCCESS
    /\ op.rids # <<>>
    /\ \A k \in 1..Len(op.rids) :
          /\ heap[op.rids[k]].used
          /\ heap[op.rids[k]].trx = 1
          /\ heap[op.rids[k]].data[UserCol(op.attr)] =
                FieldBytes(op.value.data, Fields[UserCol(op.attr) + sys_field_num])
    /\ operations[1] # <<>>
    /\ \A k \in 1..Len(operations[1]) : operations[1][k].type = "INSERT"

(* ---------------------------------------------------------------------- *)
(* C28: commit_delete returns a code other than SUCCESS whenever removing  *)
(* the entry of the record from one of the indexes fails                   *)
(* ---------------------------------------------------------------------- *)
\* the table as the callback number k of the commit of log finds it
BeforeCallback(log, k) ==
    LET Table3(acc) == [rc |-> SUCCESS, heap |-> acc.heap, indexes |-> acc.indexes]
    IN Table3(commit_loop([rc |-> SUCCESS, heap |-> heap, indexes |-> indexes_,
                           err |-> SUCCESS], SubSeq(log, 1, k - 1), 1))

\* removing the entries of the record in slot rid fails on the table st
EntryRemovalFails(st, rid) ==
    /\ st.heap[rid].used
    /\ delete_entry_of_indexes(st.indexes, st.heap[rid], rid, FALSE).rc # SUCCESS

C28_CommitDeleteReportsIndexFailure ==
    [][op'.name = "commit" =>
         \A k \in 1..Len(op'.log) :
            (/\ op'.log[k].type = "DELETE"
             /\ EntryRemovalFails(BeforeCallback(op'.log, k), op'.log[k].rid))
              => commit_delete(BeforeCallback(op'.log, k), op'.log[k].rid).rc # SUCCESS]_vars

(* ---------------------------------------------------------------------- *)
(* C29: when update_record on a record returns a code other than SUCCESS,  *)
(* the record is still in the heap with the bytes it had before, and every *)
(* index holds the entries it held before                                  *)
(* ---------------------------------------------------------------------- *)
\* this step is an update whose scan handed over the one record in slot r,
\* and update_record returned a failure for it
UpdateFailsOn(r) ==
    /\ op'.name = "update"
    /\ op'.rids = <<r>>
    /\ update_one([rc |-> SUCCESS, heap |-> heap, indexes |-> indexes_],
                  table_meta_, r, op'.attr, op'.value).rc # SUCCESS

C29_FailedUpdateLeavesNoTrace ==
    [][\A r \in Rids :
         UpdateFailsOn(r) => (heap'[r] = heap[r] /\ indexes_' = indexes_)]_vars

(* ---------------------------------------------------------------------- *)
(* C30: an update that names a column the table does not have, or gives a  *)
(* value that is not legal for the column, returns a schema error code,    *)
(* however many records match its conditions, none included                *)
(* ---------------------------------------------------------------------- *)
SchemaErrors ==
    {SCHEMA_FIELD_MISSING, SCHEMA_FIELD_NAME_ILLEGAL, SCHEMA_FIELD_TYPE_MISMATCH,
     SCHEMA_FIELD_NOT_EXIST, SCHEMA_INDEX_EXIST, SCHEMA_TABLE_NAME_ILLEGAL,
     SCHEMA_TABLE_EXIST}

NoSuchColumn(attr) == find_field_index_by_name(attr) = -1

IllegalFor(attr, value) ==
    /\ ~NoSuchColumn(attr)
    /\ is_legal(value, Fields[find_field_index_by_name(attr) + 1]) # SUCCESS

C30_BadUpdateIsSchemaError ==
    (/\ op.name = "update"
     /\ NoSuchColumn(op.attr) \/ IllegalFor(op.attr, op.value))
      => rc \in SchemaErrors

(* ---------------------------------------------------------------------- *)
(* C31: when Table::create returns a code other than SUCCESS after it has  *)
(* created the metadata file (the metadata cannot be initialised, the file *)
(* cannot be reopened for writing, the data file cannot be created), no    *)
(* metadata file is left at the path                                       *)
(* ---------------------------------------------------------------------- *)
\* caller c holds the metadata file it created and returns a failure in this step
FailsAfterCreating(c) ==
    /\ calls[c].pc \in {"created", "meta_written"}
    /\ calls'[c].pc = "returned"
    /\ calls'[c].rc # SUCCESS

C31_FailedCreateLeavesNoMetadataFile ==
    [][\A c \in Callers :
         FailsAfterCreating(c) => ~files'.meta[calls[c].path].exists]_vars

(* ---------------------------------------------------------------------- *)
(* C32: Table::open returns a code other than SUCCESS whenever the data    *)
(* file cannot be opened or the record handler cannot be initialised, with *)
(* or without indexes that open afterwards                                 *)
(* ---------------------------------------------------------------------- *)
C32_OpenReportsHandlerFailure ==
    (op.name = "open" /\ op.fault \in {OpenFileFault, HandlerInitFault})
        => rc # SUCCESS

(* ---------------------------------------------------------------------- *)
(* C33: while insert_record compensates a failed index insertion, it       *)
(* panics only if a compensating step fails: an entry that had been        *)
(* inserted cannot be removed, or the heap record cannot be deleted; an    *)
(* index that never received the entry causes no panic                     *)
(* ---------------------------------------------------------------------- *)
\* the record insert_record places for the values under transaction t
PlacedRecord(t, values) ==
    LET Stamp(rec) == IF t # 0 THEN init_trx_info(t, rec) ELSE rec
    IN Stamp([used |-> TRUE, trx |-> 0, deleted |-> FALSE,
              data |-> make_record(values).data, nulls |-> make_record(values).nulls])

\* the insertion into the indexes that the insert o runs on the current table
IndexInsertion(o) ==
    insert_entry_of_indexes(indexes_, PlacedRecord(o.trx, o.values),
                            FirstFree(heap), o.fault)

\* the insert o gets as far as the indexes, and the insertion fails there
IndexInsertionFails(o) ==
    /\ PlacedThenFailed(o, IndexInsertion(o).rc)
    /\ FreeSlots(heap) # {}
    /\ ~(o.trx # 0 /\ o.fault = TrxFault)

\* an entry this insertion put into an index cannot be removed, or the
\* record cannot be deleted from the heap
CompensationFails(o) ==
    LET Undo(rec, rid, ins) ==
          \/ \E i \in 1..Len(indexes_) :
                /\ EntryOf(indexes_[i], rec, rid) \notin indexes_[i].entries
                /\ EntryOf(indexes_[i], rec, rid) \in ins.indexes[i].entries
                /\ index_delete_entry(ins.indexes[i], rec, rid).rc # SUCCESS
          \/ rh_delete_record(rh_insert_record(heap, rec), rid).rc # SUCCESS
    IN Undo(PlacedRecord(o.trx, o.values), FirstFree(heap), IndexInsertion(o))

Panics(o) ==
    insert_record([heap |-> heap, indexes |-> indexes_, log |-> LogOf(o.trx)],
                  o.trx, PlacedRecord(o.trx, o.values), o.fault).panic

C33_PanicOnlyWhenCompensationFails ==
    [][(IndexInsertionFails(op') /\ Panics(op')) => CompensationFails(op')]_vars

(* ---------------------------------------------------------------------- *)
(* C34: in every reachable state, after a create_index that returned an    *)
(* error too, the open index handlers of the table and the index list of   *)
(* its metadata in memory name the same indexes                            *)
(* ---------------------------------------------------------------------- *)
NamesOf(list) == {list[i].name : i \in 1..Len(list)}

C34_HandlersMatchMetadata ==
    NamesOf(indexes_) = NamesOf(table_meta_)

(* ---------------------------------------------------------------------- *)
(* C35: every INSERT entry of the operation log of a transaction names a   *)
(* slot that is occupied by the record the transaction inserted; when      *)
(* insert_record fails in the index insertion after the insert was logged, *)
(* no INSERT entry for the removed record remains                          *)
(* ---------------------------------------------------------------------- *)
C35_LoggedInsertsAreInHeap ==
    \A t \in Trxs : \A k \in 1..Len(operations[t]) :
        operations[t][k].type = "INSERT" =>
            /\ heap[operations[t][k].rid].used
            /\ heap[operations[t][k].rid].trx = t

(* ---------------------------------------------------------------------- *)
(* C36: the number of bytes insert_record hands to the record manager is   *)
(* never greater than the size of the buffer make_record allocated for the *)
(* record                                                                  *)
(* ---------------------------------------------------------------------- *)
\* TableMeta::record_size: the lengths of all fields, the system field included
RECURSIVE FieldBytesUpTo(_)
FieldBytesUpTo(i) == IF i = 0 THEN 0 ELSE Fields[i].len + FieldBytesUpTo(i - 1)

record_size == FieldBytesUpTo(field_num)

\* new char[record_size + value_num]
make_record_buffer(value_num) == record_size + value_num

\* the length given to record_handler_->insert_record
insert_record_length == record_size + field_num

C36_InsertReadsWithinBuffer ==
    (/\ op.name = "insert"
     /\ Len(op.values) > 0
     /\ make_record(op.values).rc = SUCCESS)
      => insert_record_length <= make_record_buffer(Len(op.values))

(* ---------------------------------------------------------------------- *)
(* C37: every string literal that is not NULL and has at most len          *)
(* characters is accepted for a column CHARS(len), the literals that read  *)
(* as a valid date included                                                *)
(* ---------------------------------------------------------------------- *)
C37_ShortStringsFitChars ==
    (/\ op.name = "value_init_string"
     /\ ~op.is_null
     /\ Len(op.str) <= CharsField.len)
      => op.chars = SUCCESS

(* ---------------------------------------------------------------------- *)
(* C38: compare is antisymmetric over the values of one type, NULL         *)
(* included: the sign of a.compare(b) is the negation of the sign of       *)
(* b.compare(a)                                                            *)
(* ---------------------------------------------------------------------- *)
Sign(n) == IF n < 0 THEN -1 ELSE IF n > 0 THEN 1 ELSE 0

C38_CompareAntisymmetric ==
    (op.name = "compare" /\ op.this.kind = op.other.kind)
        => Sign(op.result) = -Sign(op.reverse)

(* ---------------------------------------------------------------------- *)
(* C39: for all 32-bit signed integers a and b that are not NULL,          *)
(* IntValue(a).compare(IntValue(b)) is negative iff a < b, zero iff a = b  *)
(* and positive iff a > b                                                  *)
(* ---------------------------------------------------------------------- *)
Order(a, b) == IF a < b THEN -1 ELSE IF a > b THEN 1 ELSE 0

C39_IntCompareOrders ==
    (/\ op.name = "compare"
     /\ op.this.kind = "int" /\ op.other.kind = "int"
     /\ ~op.this.is_null /\ ~op.other.is_null)
      => Sign(op.result) = Order(op.this.value, op.other.value)

(* ---------------------------------------------------------------------- *)
(* C40: number_to_str(n) returns the decimal representation of n, the most *)
(* significant digit first, after a minus sign if n is negative            *)
(* ---------------------------------------------------------------------- *)
\* the decimal digits of a negative number, most significant first
RECURSIVE DecimalOfNegative(_)
DecimalOfNegative(n) ==
    IF n > -10 THEN <<48 - n>>
    ELSE Append(DecimalOfNegative(Quotient10(n)), 48 - Remainder10(n))

RECURSIVE DecimalOfPositive(_)
DecimalOfPositive(n) ==
    IF n < 10 THEN <<48 + n>>
    ELSE Append(DecimalOfPositive(n \div 10), 48 + (n % 10))

Decimal(n) ==
    IF n < 0 THEN <<45>> \o DecimalOfNegative(n) ELSE DecimalOfPositive(n)

C40_NumberToStrIsDecimal ==
    op.name = "number_to_str" => op.str = Decimal(op.number)

====
